---- MODULE Spec2Model ----
(***************************************************************************)
(* AnimeXin Player Controller (userscript, src/animexin-controller.user.js)*)
(*                                                                         *)
(* The page-level automation as a state machine: the locator loop of       *)
(* findPlayer, the attach of setupPlayer, the event handlers fed by native  *)
(* listeners and by window messages, the outro check, the navigation and   *)
(* the DOM change monitor of startMonitoring.                              *)
(*                                                                         *)
(* The preference store and the settings UIs are modelled for both         *)
(* implementations: the userscript and the extension (content script,      *)
(* popup.js), whose definitions carry the suffix Ext; the Dailymotion      *)
(* bridge is dm-bridge.js.                                                 *)
(*                                                                         *)
(* Times are integers in hundredths of a second (1069 s = 106900), so that *)
(* the 0.35 s tolerance of checkOutroSkip is the integer 35.               *)
(***************************************************************************)
EXTENDS Integers, Naturals, Sequences, FiniteSets, TLC

VARIABLES
    ctl,        \* the controller object, its panel and what it registered with the browser
    initPc,     \* position of init(): "findPlayer", "ready" (initialized) or "failed" (catch)
    attempts,   \* findPlayer: the closure's attempts counter
    tickSched,  \* findPlayer: how the next tick is scheduled: "sync", "raf", "timeout", "none"
    dom,        \* the host document: first matching frame, first matching video, a[rel=next]
    mon,        \* startMonitoring: observer, isProcessing, pendingCheck, pending callbacks (counts)
    hist,       \* history: play events and document changes since the last attach
    eval,       \* the panel's time field: what was typed or shown, and what parsing it gave
    prefs       \* the preference store, the series of the page and what the settings UI
                \* showed; the extension's chrome.storage.local with the error log

vars == <<ctl, initPc, attempts, tickSched, dom, mon, hist, eval, prefs>>

----------------------------------------------------------------------------
(* Bounds of the model *)

\* server controls the host page creates in one page load
MaxSelects == 2
\* frames the host page creates in one page load (identities 1..MaxFrames)
MaxFrames == 2
\* video elements the host page creates in one page load
MaxVideos == 1
\* intro-skip timers that may be pending at the same time
MaxTimers == 1
\* locator attempts explored beyond maxAttempts
ExtraAttempts == 2

(* Program constants *)

\* const maxAttempts = 60 (findPlayer)
maxAttempts == 60
\* this.currentTime >= (outroStart - 0.35), in hundredths of a second
OutroTolerance == 35

\* this.maxRetries = 5
maxRetries == 5
\* this.retryDelay = 1000 (milliseconds)
retryDelay == 1000

\* v.duration of a media element whose metadata is not loaded: NaN
NaN == -1

\* !x of JavaScript for the numbers of the model: 0 and NaN are falsy
Falsy(x) == x = 0 \/ x = NaN

\* values a surface reports as its position (500 s, 1349.5 s, 1349.65 s)
TimeVals == {50000, 134950, 134965}
\* values a surface reports as its duration (1440 s)
DurVals == {144000}

\* stored settings of the series as loadSettings reads them: introSkipStart (90 s),
\* outroSkipDuration (the fallback, 90 s) and outroStartSeconds (explicit, 1069 s)
StoredSettings ==
    {<<0, 0, 0>>, <<9000, 9000, 0>>, <<9000, 9000, 106900>>, <<0, 0, 106900>>}

FrameIds == 1..MaxFrames
VideoIds == 1..MaxVideos

\* what the handler that ran last did: nav, it called navigateToNextEpisode;
\* outroNav, it did so from checkOutroSkip; setServer, it set the server control's
\* value and fired a change notification; threw, the commands whose postMessage
\* threw, each with the number of times it had been re-sent
NoFx == [nav |-> FALSE, outroNav |-> FALSE, setServer |-> FALSE, threw |-> {}]

Begin(c) == [c EXCEPT !.fx = NoFx]

----------------------------------------------------------------------------
(* The controller's methods, as functions of the controller record c *)

\* FloatingUI.showNextEpisodeButton via the controller's showNextEpisodeButton
showNextEpisodeButton(c) ==
    IF c.floatingUI THEN [c EXCEPT !.nextBtnDisplay = TRUE] ELSE c

\* navigateToNextEpisode: follow the link when one is known, else show the button
navigateToNextEpisode(c) ==
    LET c1 == [c EXCEPT !.fx.nav = TRUE]
    IN  IF c1.nextEpisodeLink
        THEN [c1 EXCEPT !.location = "next"]
        ELSE showNextEpisodeButton(c1)

\* the outro start checkOutroSkip computes from the settings and the duration
outroStart(c) ==
    IF c.outroStartSeconds > 0
    THEN c.outroStartSeconds
    ELSE IF c.outroSkipDuration > 0 THEN c.duration - c.outroSkipDuration ELSE 0

\* checkOutroSkip
checkOutroSkip(c) ==
    IF Falsy(c.duration)
    THEN c
    ELSE IF outroStart(c) > 0 /\ c.currentTime >= outroStart(c) - OutroTolerance
         THEN navigateToNextEpisode([c EXCEPT !.fx.outroNav = TRUE])
         ELSE c

\* handlePlay: the intro seek is a timer of 500 ms
handlePlay(c) ==
    LET c1 == [c EXCEPT !.isPlaying = TRUE]
    IN  IF c1.introSkipStart > 0
        THEN [c1 EXCEPT !.introTimers = @ + 1]
        ELSE c1

\* handlePause
handlePause(c) == [c EXCEPT !.isPlaying = FALSE]

\* handleTimeUpdate(data): data is a record with or without currentTime
handleTimeUpdate(c, data) ==
    IF "currentTime" \in DOMAIN data
    THEN checkOutroSkip([c EXCEPT !.currentTime = data.currentTime])
    ELSE c

\* handleDurationChange(data)
handleDurationChange(c, data) ==
    IF "duration" \in DOMAIN data
    THEN [c EXCEPT !.duration = data.duration]
    ELSE c

\* handleEnded
handleEnded(c) == navigateToNextEpisode(c)

\* handlePlayerState(state)
handlePlayerState(c, state) ==
    IF "isPlaying" \in DOMAIN state THEN [c EXCEPT !.isPlaying = state.isPlaying] ELSE c

\* event.event, "undefined" for an object that has no such field
tagOf(event) == IF "event" \in DOMAIN event THEN event.event ELSE "undefined"

\* handlePlayerEvent: the switch on event.event
handlePlayerEvent(c, event) ==
    CASE tagOf(event) = "play" -> handlePlay(c)
      [] tagOf(event) = "pause" -> handlePause(c)
      [] tagOf(event) = "timeupdate" -> handleTimeUpdate(c, event.data)
      [] tagOf(event) = "durationchange" -> handleDurationChange(c, event.data)
      [] tagOf(event) = "ended" -> handleEnded(c)
      [] tagOf(event) = "current_time" ->
            checkOutroSkip([c EXCEPT !.currentTime = event.data])
      [] tagOf(event) = "duration" ->
            [c EXCEPT !.duration = event.data]
      [] tagOf(event) = "player_state" -> handlePlayerState(c, event.data)
      [] OTHER -> c

\* text.includes(pat); a text is the sequence of its characters or, for an
\* origin, of its parts: the scheme, the labels of the host name and the dots
includes(text, pat) ==
    \E i \in 1..(Len(text) - Len(pat) + 1) : SubSeq(text, i, i + Len(pat) - 1) = pat

\* a message payload that is not an object (a text, a number) is the record
\* [primitive |-> its value]; data && typeof data === 'object'
isObject(data) == "primitive" \notin DOMAIN data

\* origin.includes('dailymotion')
fromDailymotion(origin) ==
    includes(origin, <<"dailymotion">>)

\* handlePlayerMessage: only the origin is verified, not the sending window
handlePlayerMessage(c, origin, data) ==
    IF ~fromDailymotion(origin)
    THEN c
    ELSE IF isObject(data) THEN handlePlayerEvent(c, data) ELSE c

\* retryWithBackoff(() => this.sendPlayerCommand(command, data)); tries is the
\* number of times the command has been re-sent so far
backoff(c, tries) == retryDelay * 2^c.retryCount

retryWithBackoff(c, cmd, tries) ==
    IF c.retryCount >= maxRetries
    THEN c
    ELSE [c EXCEPT !.retryCount = @ + 1,
                   !.retryTimers = @ \cup {[cmd |-> cmd, tries |-> tries + 1,
                                            delay |-> backoff(c, tries)]}]

\* sendPlayerCommand(command): to the frame by postMessage, which throws (th) or
\* not; with no frame the command is applied to the video element, without retry
sendPlayerCommand(c, cmd, tries, th) ==
    IF c.playerFrame # 0
    THEN IF th
         THEN retryWithBackoff([c EXCEPT !.fx.threw = @ \cup {[cmd |-> cmd, tries |-> tries]}],
                               cmd, tries)
         ELSE c
    ELSE c

\* attachPlayerListeners: two commands to the frame
attachPlayerListeners(c, th) ==
    sendPlayerCommand(sendPlayerCommand(c, "get_duration", 0, th), "get_player_state", 0, th)

\* seekTo(introSkipStart) in the timer of handlePlay: the seek command goes to the
\* frame, else to the video; the timer is spent
seekTo(c, th) == sendPlayerCommand([c EXCEPT !.introTimers = @ - 1], "seek", 0, th)

\* setupPlayer; link is what a[rel="next"] matches, vdur the video element's
\* duration, th whether postMessage to the frame throws
setupPlayer(c, link, vdur, th) ==
    LET c0 == [c EXCEPT !.nextEpisodeLink = link]
        c1 == IF c0.playerFrame # 0
              THEN attachPlayerListeners(
                       [c0 EXCEPT !.messageHandlers = @ + 1,
                                  !.loadListeners[c0.playerFrame] = @ + 1,
                                  !.playerReady = TRUE], th)
              ELSE c0
        c2 == IF c1.html5Video # 0
              THEN [c1 EXCEPT !.videoListeners[c1.html5Video] = @ + 1,
                              !.duration = IF vdur # NaN THEN vdur ELSE @,
                              !.playerReady = TRUE]
              ELSE c1
    IN  [c2 EXCEPT !.monitors = @ + 1]

\* one pass of the playback monitor started by startPlayerMonitoring; vtime is
\* html5Video.currentTime
monitor(c, vtime, th) ==
    LET c0 == IF c.playerFrame # 0 /\ c.isPlaying
              THEN sendPlayerCommand(c, "get_current_time", 0, th)
              ELSE c
        c1 == IF c0.html5Video # 0 /\ c0.isPlaying
              THEN [c0 EXCEPT !.currentTime = vtime]
              ELSE c0
    IN  checkOutroSkip(c1)

\* createFloatingUI: the panel is appended to the document, the next button hidden
createFloatingUI(c) ==
    [c EXCEPT !.floatingUI = TRUE, !.panelDisplay = TRUE, !.nextBtnDisplay = FALSE]

\* FloatingUI.hide
hide(c) == [c EXCEPT !.panelDisplay = FALSE]

\* h applied once per registered copy of a listener (n copies)
RECURSIVE Dispatch(_, _, _)
Dispatch(h(_), c, n) == IF n = 0 THEN c ELSE Dispatch(h, h(c), n - 1)

----------------------------------------------------------------------------
(* The server preference: tryPreferServer and findPreferredOption.
   An option's label is its textContent, a sequence of characters. *)

UpperCase == <<"A", "B", "C", "D", "E", "F", "G", "H", "I", "J", "K", "L", "M",
               "N", "O", "P", "Q", "R", "S", "T", "U", "V", "W", "X", "Y", "Z">>
LowerCase == <<"a", "b", "c", "d", "e", "f", "g", "h", "i", "j", "k", "l", "m",
               "n", "o", "p", "q", "r", "s", "t", "u", "v", "w", "x", "y", "z">>

\* text.toLowerCase()
toLowerCase(text) ==
    [i \in 1..Len(text) |->
        IF \E k \in 1..26 : UpperCase[k] = text[i]
        THEN LowerCase[CHOOSE k \in 1..26 : UpperCase[k] = text[i]]
        ELSE text[i]]

\* \s
IsSpace(ch) == ch \in {" ", "\t", "\n"}

\* .replace(/\s+/g, ' '): every run of white space becomes one blank
RECURSIVE collapse(_)
collapse(text) ==
    IF text = <<>> THEN <<>>
    ELSE IF IsSpace(text[1])
    THEN IF Len(text) > 1 /\ IsSpace(text[2])
         THEN collapse(Tail(text))
         ELSE <<" ">> \o collapse(Tail(text))
    ELSE <<text[1]>> \o collapse(Tail(text))

\* .trim() of a text whose white space is collapsed
trim(text) ==
    LET a == IF text # <<>> /\ text[1] = " " THEN 2 ELSE 1
        b == IF text # <<>> /\ text[Len(text)] = " " THEN Len(text) - 1 ELSE Len(text)
    IN  SubSeq(text, a, b)

\* norm of findPreferredOption
norm(text) == IF text = <<>> THEN <<>> ELSE trim(collapse(toLowerCase(text)))

\* Priority 1: Hardsub English Dailymotion
isDailymotion(o) ==
    LET text == norm(o)
    IN  /\ includes(text, <<"h", "a", "r", "d", "s", "u", "b">>)
        /\ includes(text, <<"e", "n", "g", "l", "i", "s", "h">>)
        /\ includes(text, <<"d", "a", "i", "l", "y", "m", "o", "t", "i", "o", "n">>)

\* Priority 2: Hardsub English Ok.ru
isOkru(o) ==
    LET text == norm(o)
    IN  /\ includes(text, <<"h", "a", "r", "d", "s", "u", "b">>)
        /\ includes(text, <<"e", "n", "g", "l", "i", "s", "h">>)
        /\ (includes(text, <<"o", "k", ".", "r", "u">>) \/ includes(text, <<"o", "k">>))

\* opts.find(...): the index of the first option of the set S of matching indices,
\* 0 for undefined
find_last(S) == IF S = {} THEN 0 ELSE CHOOSE i \in S : \A j \in S : j <= i
find(S) == IF S = {} THEN 0 ELSE CHOOSE i \in S : \A j \in S : i <= j

\* findPreferredOption(select): the index of the option returned, 0 for null
findPreferredOption(opts) ==
    LET first == find({i \in 1..Len(opts) : isDailymotion(opts[i])})
    IN  IF first # 0
        THEN first
        ELSE find({i \in 1..Len(opts) : isOkru(opts[i])})

(* Labels of the server control *)

Placeholder == <<"S", "e", "l", "e", "c", "t", " ", "V", "i", "d", "e", "o", " ", "S", "e", "r", "v", "e", "r">>
HardsubEnglishDailymotion ==
    <<"H", "a", "r", "d", "s", "u", "b", " ", "E", "n", "g", "l", "i", "s", "h", " ",
      "D", "a", "i", "l", "y", "m", "o", "t", "i", "o", "n">>
HardsubEnglishOkru ==
    <<"H", "a", "r", "d", "s", "u", "b", " ", "E", "n", "g", "l", "i", "s", "h", " ", "O", "k", ".", "r", "u">>
HardsubIndonesiaDailymotion ==
    <<"H", "a", "r", "d", "s", "u", "b", " ", "I", "n", "d", "o", "n", "e", "s", "i", "a", " ",
      "D", "a", "i", "l", "y", "m", "o", "t", "i", "o", "n">>
AllPlayerSub == <<"A", "l", "l", " ", "P", "l", "a", "y", "e", "r", " ", "S", "u", "b">>
\* the same words in another case, with runs of white space around them
SpacedDailymotion ==
    <<" ", " ", "H", "A", "R", "D", "S", "U", "B", " ", " ", "E", "n", "g", "l", "i", "s", "h", "\t",
      "D", "a", "i", "l", "y", "m", "o", "t", "i", "o", "n", " ">>
SpacedOkru ==
    <<"h", "a", "r", "d", "s", "u", "b", "\n", " ", "E", "N", "G", "L", "I", "S", "H", " ", " ", "O", "K", ".", "R", "U">>

Labels == {Placeholder, HardsubEnglishDailymotion, HardsubEnglishOkru,
           HardsubIndonesiaDailymotion, AllPlayerSub, SpacedDailymotion, SpacedOkru}

\* the option lists a server control may carry: the placeholder followed by up to
\* two servers, or two servers alone, or no option
OptionLists ==
    {<<>>, <<Placeholder>>}
    \cup {<<a, b>> : a \in Labels, b \in Labels}
    \cup {<<Placeholder, a, b>> : a \in Labels, b \in Labels}

\* the option lists of the pages on which the control is followed through a page
\* load: the preferred server second, first and absent
ServerLists ==
    {<<Placeholder, HardsubEnglishDailymotion, HardsubEnglishOkru>>,
     <<HardsubEnglishDailymotion, HardsubIndonesiaDailymotion>>,
     <<Placeholder, HardsubIndonesiaDailymotion>>}

\* the document without a server control; made counts the select.mirror
\* elements the page has created
NoSelect == [present |-> FALSE, options |-> <<>>, selected |-> 0, bound |-> FALSE, made |-> 0]

\* the n-th server control as the page delivers it: the first option is selected
NewSelect(opts, n) ==
    [present |-> TRUE, options |-> opts, selected |-> IF opts = <<>> THEN 0 ELSE 1,
     bound |-> FALSE, made |-> n]

\* this.serverPreferAttempted = true
markAttempted_off(c) == c
markAttempted(c) == [c EXCEPT !.serverPreferAttempted = TRUE]

\* tryPreferServer on controller c and document d: the controller and the
\* document after it. The change event it dispatches reaches its own
\* changeHandler while serverPreferAttempted is still false.
tryPreferServer(c, d) ==
    IF ~d.select.present \/ c.serverPreferAttempted \/ c.userServerOverride
    THEN [c |-> c, d |-> d]
    ELSE LET preferred == findPreferredOption(d.select.options)
             applies == preferred # 0 /\ preferred # d.select.selected
             c1 == IF applies
                   THEN [c EXCEPT !.userServerOverride = TRUE, !.fx.setServer = TRUE]
                   ELSE c
         IN  [c |-> markAttempted(c1),
              d |-> [d EXCEPT !.select.bound = TRUE,
                              !.select.selected = IF applies THEN preferred ELSE @]]

\* the history of tryPreferServer: calls made with the control present (2 stands
\* for two or more), whether a preference was ever applied, and whether a call
\* after the first found a preferred option that was not the selected one
notePrefer(h, d, c) ==
    [h EXCEPT !.preferCalls = IF d.select.present /\ @ < 2 THEN @ + 1 ELSE @,
              !.applied = @ \/ c.fx.setServer,
              !.later = @ \/ (/\ d.select.present
                              /\ h.preferCalls >= 1
                              /\ findPreferredOption(d.select.options)
                                     \notin {0, d.select.selected})]

----------------------------------------------------------------------------
(* The time codec of the panel: FloatingUI.parseTimeToSeconds and formatTime.
   A text is a sequence of characters; times here are whole seconds. *)

\* if (num < 0 || num > 86400): the largest time accepted, 24 hours
MaxSeconds == 86400

Digits == <<"0", "1", "2", "3", "4", "5", "6", "7", "8", "9">>

\* \d
IsDigit(ch) == \E i \in 1..10 : Digits[i] = ch

DigitVal(ch) == (CHOOSE i \in 1..10 : Digits[i] = ch) - 1

\* String(n) for an integer n >= 0
RECURSIVE Dec(_)
Dec(n) == IF n < 10 THEN <<Digits[n + 1]>> ELSE Dec(n \div 10) \o <<Digits[(n % 10) + 1]>>

\* .padStart(2, '0')
padStart2(s) == IF Len(s) < 2 THEN <<"0">> \o s ELSE s

\* parseInt(p, 10) of a string of digits; of the empty string it is NaN
RECURSIVE parseInt(_)
parseInt(s) ==
    IF s = <<>> THEN NaN
    ELSE IF Len(s) = 1 THEN DigitVal(s[1])
    ELSE parseInt(SubSeq(s, 1, Len(s) - 1)) * 10 + DigitVal(s[Len(s)])

\* value.replace(/[^\d:]/g, '')
sanitize(value) == SelectSeq(value, LAMBDA ch : IsDigit(ch) \/ ch = ":")

\* sanitized.split(':')
RECURSIVE split(_)
split(s) ==
    IF \A i \in 1..Len(s) : s[i] # ":"
    THEN <<s>>
    ELSE LET k == CHOOSE i \in 1..Len(s) : s[i] = ":" /\ \A j \in 1..(i - 1) : s[j] # ":"
         IN  <<SubSeq(s, 1, k - 1)>> \o split(SubSeq(s, k + 1, Len(s)))

\* /^\d+$/ on a sanitized text
allDigits(s) == s # <<>> /\ \A i \in 1..Len(s) : IsDigit(s[i])

\* /^(\d{1,2}:)?\d{1,2}:\d{2}$/ (the second pattern, /^\d{1,2}:\d{2}$/, is the
\* first one without its optional group), on a sanitized text
timeFormat(s) ==
    LET p == split(s)
    IN  /\ Len(p) \in {2, 3}
        /\ \A i \in 1..(Len(p) - 1) : Len(p[i]) \in {1, 2}
        /\ Len(p[Len(p)]) = 2

\* the outcome of parsing: the seconds returned, or the error thrown
Ok(n) == [ok |-> TRUE, val |-> n, err |-> "none"]
Err(kind) == [ok |-> FALSE, val |-> 0, err |-> kind]

\* if (seconds >= 60) throw, if (minutes >= 60) throw
tooBig_off(n) == n > 60
tooBig(n) == n >= 60

\* if (totalSeconds < 0 || totalSeconds > 86400) throw
outOfRange_off(n) == FALSE
outOfRange(n) == n < 0 \/ n > MaxSeconds

\* totalSeconds = hours * 3600 + minutes * 60 + seconds
totalOf_off(hours, minutes, seconds) == hours * 60 + minutes * 60 + seconds
totalOf(hours, minutes, seconds) == hours * 3600 + minutes * 60 + seconds

\* FloatingUI.parseTimeToSeconds(value), value a string
parseTimeToSeconds(value) ==
    LET sanitized == sanitize(value)
        parts == split(sanitized)
    IN  IF value = <<>> \/ sanitized = <<>> THEN Ok(0)
        ELSE IF allDigits(sanitized)
        THEN IF outOfRange(parseInt(sanitized)) THEN Err("OutOfRange")
             ELSE Ok(parseInt(sanitized))
        ELSE IF ~timeFormat(sanitized) THEN Err("InvalidFormat")
        ELSE IF Len(parts) = 2
        THEN LET minutes == parseInt(parts[1])
                 seconds == parseInt(parts[2])
                 totalSeconds == minutes * 60 + seconds
             IN  IF tooBig(seconds) THEN Err("InvalidFormat")
                 ELSE IF outOfRange(totalSeconds) THEN Err("OutOfRange")
                 ELSE Ok(totalSeconds)
        ELSE LET hours == parseInt(parts[1])
                 minutes == parseInt(parts[2])
                 seconds == parseInt(parts[3])
                 totalSeconds == totalOf(hours, minutes, seconds)
             IN  IF tooBig(minutes) THEN Err("InvalidFormat")
                 ELSE IF tooBig(seconds) THEN Err("InvalidFormat")
                 ELSE IF outOfRange(totalSeconds) THEN Err("OutOfRange")
                 ELSE Ok(totalSeconds)

\* FloatingUI.formatTime(seconds): Math.max(0, Math.floor(Number(seconds) || 0))
formatTime(seconds) ==
    LET s == IF seconds = NaN \/ seconds < 0 THEN 0 ELSE seconds
        m == s \div 60
        ss == padStart2(Dec(s % 60))
    IN  Dec(m) \o <<":">> \o ss

(* Texts a user types into a time field *)

\* largest minutes and hours component typed: one more than two digits hold
MaxComponent == 100

\* components typed: the ends of the ranges and the cases of the README
Components == {0, 1, 2, 9, 17, 23, 24, 25, 30, 45, 49, 59, 60, 61, 75, 90, 99, MaxComponent}

\* the components two digits hold
TwoDigits == {n \in Components : Len(Dec(n)) <= 2}

\* ss as typed: two digits
TwoDigit(n) == padStart2(Dec(n))

\* "m:ss" and "h:mm:ss" as typed
MinSec(m, s) == Dec(m) \o <<":">> \o TwoDigit(s)
HourMinSec(h, m, s) == Dec(h) \o <<":">> \o TwoDigit(m) \o <<":">> \o TwoDigit(s)

\* raw seconds typed
RawSeconds == {0, 5, 45, 90, 99, 1069, 5025, 6000, 86399, MaxSeconds, MaxSeconds + 1, 100000}

TimeTexts ==
    {Dec(n) : n \in RawSeconds}
    \cup {MinSec(m, s) : m \in Components, s \in TwoDigits}
    \cup {HourMinSec(h, m, s) : h \in {0, 1, 23, 24, 25, 99},
                                m \in {0, 23, 59, 60, 99}, s \in {0, 45, 59, 60, 99}}
    \cup {<<>>, <<"a", "b", "c">>, <<"1", ":", "5">>, <<":", "3", "0">>, <<"1", ":", ":", "3", "0">>,
          <<"1", ":", "2", ":", "3", ":", "4", "5">>, <<"-", "5">>, <<"1", "m", "3", "0">>,
          <<" ", "1", ":", "3", "0", " ">>, <<"1", ".", "5">>}

\* nothing typed or shown yet
InitEval == [fn |-> "none", text |-> <<>>, secs |-> 0, res |-> Ok(0)]

----------------------------------------------------------------------------
(* The preference store. The userscript keeps one object per series in the
   script manager's storage (GM_getValue, GM_setValue); the content script of
   the extension keeps one JSON text per series in localStorage and is driven
   by the page panel and by the popup. Settings are in hundredths of a second,
   as in the controller; the time fields of the panels hold whole seconds. *)

\* seconds of the time codec as a setting of the controller
Hundredths(n) == n * 100

\* Math.floor of a setting, in seconds
FloorSeconds(v) == v \div 100

\* Number(x) || 0
numberOrZero(x) == IF Falsy(x) THEN 0 ELSE x

\* validateTimeValue(value) of the content script (the bound of the mutant is 24 hours and one second)
validateTimeValue_wide(value) ==
    IF value = NaN \/ value < 0 \/ value > Hundredths(MaxSeconds + 1) THEN 0
    ELSE Hundredths(FloorSeconds(value))
validateTimeValue(value) ==
    IF value = NaN \/ value < 0 \/ value > Hundredths(MaxSeconds) THEN 0
    ELSE Hundredths(FloorSeconds(value))

\* `animexin_${this.currentSeries}`
keyOf_shared(series) == <<"a", "n", "i", "m", "e", "x", "i", "n", "_">>
keyOf(series) == <<"a", "n", "i", "m", "e", "x", "i", "n", "_">> \o series

\* what the store holds under a key: nothing, a text JSON.parse rejects (or a
\* read that throws), the value null, a value without the three fields (a
\* number, a text, a list), or an object with the three fields; a field that
\* is missing or is not a number reads as NaN
Stored(kind, intro, fallback, explicit) ==
    [kind |-> kind, introSkipStart |-> intro, outroSkipDuration |-> fallback,
     outroStartSeconds |-> explicit]
Absent == Stored("absent", NaN, NaN, NaN)
Malformed == Stored("malformed", NaN, NaN, NaN)
NullValue == Stored("null", NaN, NaN, NaN)
NoFields == Stored("nofields", NaN, NaN, NaN)
Record(intro, fallback, explicit) == Stored("record", intro, fallback, explicit)

\* the read of the stored value throws: GM_getValue or localStorage.getItem
\* fails, JSON.parse rejects the text, or parsed.introSkipStart is read of null
readThrows(stored) == stored.kind \in {"malformed", "null"}

\* try { ... } catch (error) { log }: what the body threw does not leave the method
caught_not(threw) == threw
caught(threw) == FALSE

\* loadSettings of the userscript: if (settings) { Number(...) || 0 } inside try;
\* a stored null is falsy and skipped
loadSettings(c, stored) ==
    [c |-> IF stored.kind \in {"absent", "null", "malformed"} THEN c
           ELSE [c EXCEPT !.introSkipStart = numberOrZero(stored.introSkipStart),
                          !.outroSkipDuration = numberOrZero(stored.outroSkipDuration),
                          !.outroStartSeconds = numberOrZero(stored.outroStartSeconds)],
     threw |-> caught(stored.kind = "malformed")]

\* loadSettings of the content script: if (raw) { parsed = JSON.parse(raw); ... }
\* inside try; what throws does so before the first assignment
loadSettingsExt(c, stored) ==
    [c |-> IF stored.kind = "absent" \/ readThrows(stored) THEN c
           ELSE [c EXCEPT !.introSkipStart = validateTimeValue(stored.introSkipStart),
                          !.outroSkipDuration = validateTimeValue(stored.outroSkipDuration),
                          !.outroStartSeconds = validateTimeValue(stored.outroStartSeconds)],
     threw |-> caught(readThrows(stored))]

\* GM_setValue(key, settings), localStorage.setItem(key, text): a write that
\* throws leaves the store as it was
write(p, rec) ==
    IF p.writeThrows THEN p ELSE [p EXCEPT !.store[keyOf(p.series)] = rec]

\* saveSettings of the userscript: the three fields as they are; the catch logs
saveSettings(c, p) ==
    write(p, Record(c.introSkipStart, c.outroSkipDuration, c.outroStartSeconds))

\* saveSettings of the content script: the three fields validated; the catch reports
saveSettingsExt(c, p) ==
    write(p, Record(validateTimeValue(c.introSkipStart),
                    validateTimeValue(c.outroSkipDuration),
                    validateTimeValue(c.outroStartSeconds)))

\* FloatingUI.updateSettings: the two time fields show the settings
showSettings(c, p) ==
    [p EXCEPT !.introText = formatTime(FloorSeconds(c.introSkipStart)),
              !.outroText = formatTime(FloorSeconds(c.outroStartSeconds))]

\* the step called updateSettings with these arguments
called(p, introSkipStart, outroSkipDuration, outroStartSeconds) ==
    [p EXCEPT !.call = [made |-> TRUE,
                        args |-> <<introSkipStart, outroSkipDuration, outroStartSeconds>>]]

\* updateSettings of the userscript
updateSettings(c, p0, introSkipStart, outroSkipDuration, outroStartSeconds) ==
    LET p == called(p0, introSkipStart, outroSkipDuration, outroStartSeconds)
        c1 == [c EXCEPT !.introSkipStart = numberOrZero(introSkipStart),
                        !.outroSkipDuration = numberOrZero(outroSkipDuration),
                        !.outroStartSeconds = numberOrZero(outroStartSeconds)]
        p1 == saveSettings(c1, p)
    IN  [c |-> c1, p |-> IF c1.floatingUI THEN showSettings(c1, p1) ELSE p1]

\* updateSettings of the content script: it validates, saves, refreshes the
\* panel, announces success in the panel and hides the panel
updateSettingsExt(c, p0, introSkipStart, outroSkipDuration, outroStartSeconds) ==
    LET p == called(p0, introSkipStart, outroSkipDuration, outroStartSeconds)
        c1 == [c EXCEPT !.introSkipStart = validateTimeValue(introSkipStart),
                        !.outroSkipDuration = validateTimeValue(outroSkipDuration),
                        !.outroStartSeconds = validateTimeValue(outroStartSeconds)]
        p1 == saveSettingsExt(c1, p)
    IN  IF c1.floatingUI
        THEN [c |-> [c1 EXCEPT !.panelDisplay = FALSE],
              p |-> [showSettings(c1, p1) EXCEPT !.note = "success"]]
        ELSE [c |-> c1, p |-> p1]

\* Number(p) || 0 of a part of the split text
numberOfPart(part) == IF part = <<>> THEN 0 ELSE parseInt(part)

\* Math.min(n, 86400)
capSeconds(n) == IF n > MaxSeconds THEN MaxSeconds ELSE n

\* FloatingUI.parseTimeToSeconds of the content script: it never throws
parseTimeToSecondsExt(value) ==
    LET clean == sanitize(value)
        parts == split(clean)
    IN  IF value = <<>> THEN 0
        ELSE IF allDigits(clean) THEN capSeconds(parseInt(clean))
        ELSE IF Len(parts) = 2
        THEN capSeconds(numberOfPart(parts[1]) * 60 + numberOfPart(parts[2]))
        ELSE IF Len(parts) = 3
        THEN capSeconds(numberOfPart(parts[1]) * 3600 + numberOfPart(parts[2]) * 60
                            + numberOfPart(parts[3]))
        ELSE 0

\* FloatingUI.handleSave of the userscript: a field that does not parse throws
\* into the catch, which shows the error
handleSave(c, p, introValue, outroValue) ==
    LET introSeconds == parseTimeToSeconds(introValue)
        outroStartSeconds == parseTimeToSeconds(outroValue)
        u == updateSettings(c, p, Hundredths(introSeconds.val), c.outroSkipDuration,
                            Hundredths(outroStartSeconds.val))
    IN  IF ~introSeconds.ok \/ ~outroStartSeconds.ok
        THEN [c |-> c, p |-> [p EXCEPT !.note = "error"]]
        ELSE [c |-> u.c, p |-> [u.p EXCEPT !.note = "success"]]

\* FloatingUI.handleSave of the content script
handleSaveExt(c, p, introValue, outroValue) ==
    updateSettingsExt(c, p, Hundredths(parseTimeToSecondsExt(introValue)),
                      c.outroSkipDuration,
                      Hundredths(parseTimeToSecondsExt(outroValue)))

\* the message listener of the content script, case 'saveSettings': the data
\* is an object (hasData) or not
onSaveSettings(c, p, hasData, data) ==
    IF ~hasData THEN [c |-> c, p |-> [p EXCEPT !.response = "fail"]]
    ELSE LET u == updateSettingsExt(c, p, data[1], data[2], data[3])
         IN  [c |-> u.c, p |-> [u.p EXCEPT !.response = "ok"]]

\* PopupController.parseAndValidateTime: statement for statement the parser of
\* the userscript's panel
parseAndValidateTime(value) == parseTimeToSeconds(value)

\* parseInt(value, 10) of a text: the digits it starts with
RECURSIVE leadingDigits(_)
leadingDigits(s) ==
    IF s = <<>> \/ ~IsDigit(s[1]) THEN <<>> ELSE <<s[1]>> \o leadingDigits(Tail(s))

\* the largest outro duration the popup accepts, in seconds
MaxDuration == 3600

\* PopupController.parseAndValidateNumber(value, fieldName, 0, 3600)
parseAndValidateNumber(value) ==
    LET num == parseInt(leadingDigits(value))
    IN  IF value = <<>> THEN Ok(0)
        ELSE IF num = NaN THEN Err("InvalidFormat")
        ELSE IF num < 0 \/ num > MaxDuration THEN Err("OutOfRange")
        ELSE Ok(num)

\* PopupController.validateAllInputs
validateAllInputs(introValue, outroValue, durationValue) ==
    LET introSkipStart == parseAndValidateTime(introValue)
        outroStartSeconds == parseAndValidateTime(outroValue)
        outroSkipDuration == parseAndValidateNumber(durationValue)
    IN  [isValid |-> introSkipStart.ok /\ outroStartSeconds.ok /\ outroSkipDuration.ok,
         data |-> <<introSkipStart.val, outroSkipDuration.val, outroStartSeconds.val>>]

\* PopupController.handleSave: it sends the message only if every field is
\* valid, and shows success only if the answer says so
popupHandleSave(c, p, introValue, outroValue, durationValue) ==
    LET validation == validateAllInputs(introValue, outroValue, durationValue)
        u == onSaveSettings(c, p, TRUE, <<Hundredths(validation.data[1]),
                                          Hundredths(validation.data[2]),
                                          Hundredths(validation.data[3])>>)
    IN  IF ~validation.isValid
        THEN [c |-> c, p |-> [p EXCEPT !.popupNote = "error"]]
        ELSE [c |-> u.c,
              p |-> [u.p EXCEPT !.popupNote = IF u.p.response = "ok" THEN "success"
                                              ELSE "error"]]

----------------------------------------------------------------------------
(* The Dailymotion bridge (dm-bridge.js), a script that runs inside the
   player frame, and the commands the content script of the extension posts
   to the frame. Times are in hundredths of a second. *)

\* const MESSAGE_SOURCE = 'animexin-controller'
MESSAGE_SOURCE == "animexin-controller"

\* a message posted to the frame: the fields the bridge reads (source, type,
\* action, data.time) and the fields the content script writes (command,
\* method, and the time as time, value or params)
Payload(source, type, action, command, method, shape, time) ==
    [source |-> source, type |-> type, action |-> action, command |-> command,
     method |-> method, shape |-> shape, time |-> time]

\* { command, ... } and { method, ... } as the content script posts them
ByCommand(command, shape, time) == Payload("none", "none", "none", command, "none", shape, time)
ByMethod(method, shape, time) == Payload("none", "none", "none", "none", method, shape, time)

\* { source: 'animexin-controller', type: 'dm_bridge_command', action, data }
BridgeCommand(action, time) ==
    Payload(MESSAGE_SOURCE, "dm_bridge_command", action, "none", "none", "data", time)

\* the names under which the content script asks a Dailymotion frame
getterName ==
    [get_current_time |-> "getCurrentTime", get_duration |-> "getDuration",
     get_player_state |-> "getPlayerState"]

\* sendPlayerCommand of the content script with a frame attached: the
\* payloads it posts, in order
sendPlayerCommandExt(dailymotion, command, time) ==
    IF ~dailymotion THEN <<ByCommand(command, "data", time)>>
    ELSE IF command = "seek"
    THEN <<ByCommand("seek", "time", time), ByMethod("seek", "value", time),
           ByMethod("seek", "params", time)>>
    ELSE IF command \in {"play", "pause"}
    THEN <<ByCommand(command, "none", 0), ByMethod(command, "none", 0)>>
    ELSE IF command \in DOMAIN getterName
    THEN <<ByCommand(getterName[command], "none", 0),
           ByMethod(getterName[command], "none", 0)>>
    ELSE <<ByCommand(command, "data", time)>>

\* seekTo of the content script
seekToExt(dailymotion, seconds) ==
    sendPlayerCommandExt(dailymotion, "seek", validateTimeValue(seconds))

\* the frame before the bridge has run in it
NoBridge ==
    [dailymotion |-> FALSE, hasVideo |-> FALSE, videoEl |-> FALSE, currentTime |-> 0,
     paused |-> TRUE, inbox |-> <<>>, emitted |-> [event |-> "none", time |-> 0],
     issued |-> [command |-> "none", time |-> 0],
     ran |-> [command |-> "none", time |-> 0]]

\* emit(eventName, data): a dm_bridge_event posted to the parent (the last one is kept)
emit(b, eventName, time) == [b EXCEPT !.emitted = [event |-> eventName, time |-> time]]

\* findVideo(): the video element of the frame, cached once found
findVideo(b) == [b EXCEPT !.videoEl = b.hasVideo]

\* handleCommand(cmd, data); playAllowed: the promise of v.play() resolves
handleCommand(b0, cmd, time, playAllowed) ==
    LET b == findVideo(b0)
        t == IF time = NaN \/ time < 0 THEN 0 ELSE Hundredths(FloorSeconds(time))
        done == [b EXCEPT !.ran = [command |-> cmd, time |-> IF cmd = "seek" THEN t ELSE 0]]
    IN  IF ~b.videoEl \/ cmd \notin {"play", "pause", "seek"} THEN b
        ELSE IF cmd = "play"
        THEN IF playAllowed /\ b.paused THEN emit([done EXCEPT !.paused = FALSE], "play", 0)
             ELSE done
        ELSE IF cmd = "pause"
        THEN IF ~b.paused THEN emit([done EXCEPT !.paused = TRUE], "pause", 0) ELSE done
        ELSE emit([done EXCEPT !.currentTime = t], "current_time", t)

\* evt.origin of a sender whose origin is a tuple: new URL(origin) parses it
\* and hostname is the sequence of its labels, in lower case
UrlOrigin(hostname) == [parses |-> TRUE, hostname |-> hostname]

\* evt.origin of a sender with an opaque origin (a sandboxed frame, a data: or
\* file: document) is the string 'null': new URL('null') throws
NullOrigin == [parses |-> FALSE, hostname |-> <<>>]

\* the origin of the page the content script runs in
HostOrigin == UrlOrigin(<<"animexin", "dev">>)

\* const ALLOWED_PARENT_RE = /(^|\.)animexin\.dev$/i, tested on a hostname
ALLOWED_PARENT_RE(hostname) ==
    /\ Len(hostname) >= 2
    /\ hostname[Len(hostname) - 1] = "animexin"
    /\ hostname[Len(hostname)] = "dev"

\* the message listener of the bridge: the origin test returns only when the
\* origin parses and its hostname does not match; an origin that does not parse
\* throws inside the inner try, whose catch block is empty
bridgeListener(b, origin, data, playAllowed) ==
    IF data.source # MESSAGE_SOURCE \/ data.type # "dm_bridge_command" THEN b
    ELSE IF origin.parses /\ ~ALLOWED_PARENT_RE(origin.hostname) THEN b
    ELSE handleCommand(b, data.action, data.time, playAllowed)

----------------------------------------------------------------------------
(* The content script: inbound messages. A payload is a function from field
   names to values; a number in the place of an object is [primitive |-> n]. *)

\* firstOf that knows one name only
firstOf_one(d, names) == IF names[1] \in DOMAIN d THEN names[1] ELSE "none"

\* a ?? b ?? c on the fields of an object: the first of the names it carries,
\* "none" if it carries none of them
firstOf(d, names) ==
    LET S == {i \in 1..Len(names) : names[i] \in DOMAIN d}
    IN  IF S = {} THEN "none" ELSE names[CHOOSE i \in S : \A j \in S : i <= j]

\* data.data || data
innerData(data) ==
    IF "data" \in DOMAIN data /\ (isObject(data.data) \/ data.data.primitive # 0)
    THEN data.data
    ELSE data

\* the number the ?? chain over these names finds in nd, or nd itself when it
\* is a number
numberIn(nd, names) ==
    IF ~isObject(nd) THEN [found |-> TRUE, val |-> nd.primitive]
    ELSE IF firstOf(nd, names) # "none"
    THEN [found |-> TRUE, val |-> nd[firstOf(nd, names)]]
    ELSE [found |-> FALSE, val |-> 0]

\* the normalized event of handlePlayerMessage: tag "none" when the payload
\* carries no event, type or name
normalize(data) ==
    LET field == firstOf(data, <<"event", "type", "name">>)
        tag == IF field = "none" THEN "none" ELSE data[field]
        nd == innerData(data)
        t == numberIn(nd, <<"time", "currentTime", "position">>)
        d == numberIn(nd, <<"duration", "length">>)
    IN  IF tag = "timeupdate"
        THEN [event |-> tag, data |-> IF t.found THEN [time |-> t.val] ELSE nd]
        ELSE IF tag \in {"durationchange", "duration"}
        THEN [event |-> "durationchange",
              data |-> IF d.found THEN [duration |-> d.val] ELSE nd]
        ELSE [event |-> tag, data |-> nd]

\* handlePlay of the content script: the intro seek is a timer of 800 ms
handlePlayExt(c) == handlePlay(c)

\* handlePlayerEvent of the content script
handlePlayerEventExt(c, event) ==
    CASE event.event = "apiready" -> [c EXCEPT !.playerReady = TRUE]
      [] event.event = "play" -> handlePlayExt(c)
      [] event.event = "pause" -> handlePause(c)
      [] event.event = "timeupdate" ->
            IF isObject(event.data) /\ "time" \in DOMAIN event.data
            THEN [c EXCEPT !.currentTime = validateTimeValue(event.data.time)]
            ELSE c
      [] event.event = "durationchange" ->
            IF isObject(event.data) /\ "duration" \in DOMAIN event.data
            THEN [c EXCEPT !.duration = validateTimeValue(event.data.duration)]
            ELSE c
      [] event.event = "current_time" ->
            IF ~isObject(event.data)
            THEN [c EXCEPT !.currentTime = validateTimeValue(event.data.primitive)]
            ELSE c
      [] event.event = "duration" ->
            IF ~isObject(event.data)
            THEN [c EXCEPT !.duration = validateTimeValue(event.data.primitive)]
            ELSE c
      [] event.event = "ended" -> navigateToNextEpisode(c)
      [] event.event = "player_state" ->
            IF isObject(event.data) /\ "isPlaying" \in DOMAIN event.data
            THEN [c EXCEPT !.isPlaying = event.data.isPlaying]
            ELSE c
      [] OTHER -> c

\* /dailymotion\.com/i.test(origin)
fromDailymotionExt(origin) ==
    includes(toLowerCase(origin), <<"dailymotion", ".", "com">>)

\* handlePlayerMessage of the content script
handlePlayerMessageExt(c, origin, data) ==
    IF ~fromDailymotionExt(origin) \/ ~isObject(data) THEN c
    ELSE IF normalize(data).event = "none" THEN c
    ELSE handlePlayerEventExt(c, normalize(data))

----------------------------------------------------------------------------
(* The content script: the address of the attached frame. The query of the
   address is the sequence of its parameter names. *)

\* url.searchParams.has(name)
has(query, name) == \E i \in 1..Len(query) : query[i] = name

\* url.searchParams.set(name, value)
set(query, name) == IF has(query, name) THEN query ELSE Append(query, name)

\* the frame's address as the page delivers it, and what was done with the
\* frame: src written, load events pending, a message posted to it, a message
\* posted while the address lacked a parameter
FrameAddr(query) ==
    [query |-> query, writes |-> 0, loads |-> 0, used |-> FALSE, early |-> FALSE]

apiEnabled(query) == has(query, "api") /\ has(query, "origin")

\* ensureDailymotionApiEnabled that sets src whatever it found
ensureDailymotionApiEnabled_always(a) ==
    [a EXCEPT !.query = set(set(a.query, "api"), "origin"),
              !.writes = @ + 1, !.loads = @ + 1]

\* ensureDailymotionApiEnabled(iframe): a write to src makes the frame load again
ensureDailymotionApiEnabled(a) ==
    LET q1 == IF ~has(a.query, "api") THEN set(a.query, "api") ELSE a.query
        q2 == IF ~has(q1, "origin") THEN set(q1, "origin") ELSE q1
        changed == ~has(a.query, "api") \/ ~has(q1, "origin")
    IN  IF changed
        THEN [a EXCEPT !.query = q2, !.writes = @ + 1, !.loads = @ + 1]
        ELSE a

\* contentWindow.postMessage(payload, '*') to the frame
postToFrame(a) == [a EXCEPT !.used = TRUE, !.early = @ \/ ~apiEnabled(a.query)]

\* initDailymotionMessaging with a Dailymotion frame attached: the rewrite of
\* the address, then the subscriptions
initDailymotionMessaging(a) == postToFrame(ensureDailymotionApiEnabled(a))

\* attachPlayerListeners of the content script: get_duration, get_player_state
attachPlayerListenersExt(a) ==
    IF sendPlayerCommandExt(TRUE, "get_duration", 0) \o
           sendPlayerCommandExt(TRUE, "get_player_state", 0) # <<>>
    THEN postToFrame(a)
    ELSE a

\* the load handler setupPlayer puts on the frame, and what setupPlayer does
\* at once when the frame has a contentWindow
frameReady(c, a) ==
    [c |-> [c EXCEPT !.playerReady = TRUE],
     a |-> initDailymotionMessaging(attachPlayerListenersExt(a))]

\* setupPlayer of the content script; the frame is in the document, so it has
\* a contentWindow
setupPlayerExt(c, a, link, vdur) ==
    LET c0 == [c EXCEPT !.nextEpisodeLink = link]
        c1 == IF c0.playerFrame # 0
              THEN [frameReady(c0, a).c EXCEPT
                       !.messageHandlers = @ + 1,
                       !.loadListeners[c0.playerFrame] = @ + 1]
              ELSE c0
        c2 == IF c1.html5Video # 0
              THEN [c1 EXCEPT !.videoListeners[c1.html5Video] = @ + 1,
                              !.duration = IF vdur # NaN THEN vdur ELSE @,
                              !.playerReady = TRUE]
              ELSE c1
    IN  [c |-> [c2 EXCEPT !.monitors = @ + 1],
         a |-> IF c0.playerFrame # 0 THEN frameReady(c0, a).a ELSE a]

----------------------------------------------------------------------------
(* State after construction: the fields of the constructor, the settings
   loadSettings read, and the document as the host page delivered it *)

InitCtl(intro, fallback, explicit) ==
    [playerFrame |-> 0, html5Video |-> 0,
     isPlaying |-> FALSE, currentTime |-> 0, duration |-> 0,
     introSkipStart |-> intro, outroSkipDuration |-> fallback,
     outroStartSeconds |-> explicit,
     nextEpisodeLink |-> FALSE, floatingUI |-> FALSE, playerReady |-> FALSE,
     panelDisplay |-> FALSE, nextBtnDisplay |-> FALSE,
     messageHandlers |-> 0, loadListeners |-> [f \in FrameIds |-> 0],
     videoListeners |-> [v \in VideoIds |-> 0],
     monitors |-> 0, introTimers |-> 0,
     serverPreferAttempted |-> FALSE, userServerOverride |-> FALSE,
     retryCount |-> 0, retryTimers |-> {},
     location |-> "page", fx |-> NoFx]

InitDom(hasFrame, hasVideo, hasNext) ==
    [frame |-> IF hasFrame THEN 1 ELSE 0, framesCreated |-> IF hasFrame THEN 1 ELSE 0,
     video |-> IF hasVideo THEN 1 ELSE 0, videosCreated |-> IF hasVideo THEN 1 ELSE 0,
     next |-> hasNext, select |-> NoSelect, postThrows |-> FALSE, bridge |-> NoBridge,
     addr |-> FrameAddr(<<>>)]

InitMon == [observer |-> FALSE, isProcessing |-> FALSE, pendingCheck |-> FALSE,
            raf |-> 0, timers |-> 0]


(* The preference store at page load *)

\* page loads explored
MaxLoads == 2

\* the series of the pages visited, as getCurrentSeries returns them
SeriesIds == {<<"a">>, <<"a", "b">>}

Keys == {keyOf(s) : s \in SeriesIds}

\* updateSettings was not called
NoCall == [made |-> FALSE, args |-> <<0, 0, 0>>]

\* no save of the series has completed
NotSaved == [written |-> FALSE, args |-> <<0, 0, 0>>]

\* chrome.storage.local as the background service of the extension uses it:
\* the stored errorLog, the operations the storage has not served yet (in the
\* order of the calls), the get callbacks that have not run yet, and the number
\* of reportError messages handled. An error is the number of its report.
InitLocal == [errorLog |-> <<>>, ops |-> <<>>, callbacks |-> <<>>, reported |-> 0]

InitPrefs ==
    [local |-> InitLocal, impl |-> "userscript", series |-> <<"a">>, store |-> [k \in Keys |-> Absent],
     writeThrows |-> FALSE, introText |-> <<>>, outroText |-> <<>>,
     note |-> "none", popupNote |-> "none", response |-> "none", op |-> "none",
     call |-> NoCall, saved |-> [s \in SeriesIds |-> NotSaved], fresh |-> SeriesIds,
     loads |-> 1]

\* a handler starts: nothing announced, nothing answered, updateSettings not called
BeginP(p) ==
    [p EXCEPT !.note = "none", !.popupNote = "none", !.response = "none", !.call = NoCall]

InitHist ==
    [played |-> FALSE, preferCalls |-> 0, applied |-> FALSE, later |-> FALSE,
     userChose |-> FALSE, docChanged |-> FALSE, unseen |-> FALSE,
     unloaded |-> FALSE, via |-> [tag |-> "none", value |-> "none"]]

Init ==
    /\ \E st \in StoredSettings : ctl = InitCtl(st[1], st[2], st[3])
    /\ \E hasFrame \in BOOLEAN, hasVideo \in BOOLEAN, hasNext \in BOOLEAN :
           dom = InitDom(hasFrame, hasVideo, hasNext)
    /\ initPc = "findPlayer"
    /\ attempts = 0
    /\ tickSched = "sync"
    /\ mon = InitMon
    /\ hist = InitHist
    /\ eval = InitEval
    /\ prefs = InitPrefs

Running == ctl.location = "page"

\* a step in which setupPlayer ran: it starts one more playback monitor
Attach == ctl'.monitors > ctl.monitors

----------------------------------------------------------------------------
(* init() and the locator loop of findPlayer *)

\* startMonitoring: the MutationObserver observes document.body
startMonitoring(m) == [m EXCEPT !.observer = TRUE]

\* one run of tick. throws: a DOM probe of this attempt throws; query: 200 ms have
\* passed since the last query, so the document is queried (else the cached nulls
\* are used); vdur: the duration of the video element found.
\* A found surface resolves the promise and init() goes on in the same turn
\* (createFloatingUI, startMonitoring); the rejection after maxAttempts lands in
\* the catch of init(), which only logs. The attempts counter dies with the
\* settled promise (0).
LocatorTick ==
    /\ Running
    /\ initPc = "findPlayer"
    /\ tickSched # "none"
    /\ attempts < maxAttempts + ExtraAttempts
    /\ \E throws \in BOOLEAN, query \in BOOLEAN, vdur \in DurVals \cup {NaN} :
         LET p == tryPreferServer(Begin(ctl), dom)
             c == p.c
             cachedFrame == IF query THEN dom.frame ELSE 0
             cachedVideo == IF query THEN dom.video ELSE 0
             found == cachedFrame # 0 \/ cachedVideo # 0
             r == setupPlayer([c EXCEPT !.playerFrame = cachedFrame,
                                        !.html5Video = cachedVideo], dom.next, vdur,
                              dom.postThrows)
         IN  /\ (cachedVideo = 0 => vdur = NaN)
             /\ (throws => ~query /\ vdur = NaN)
             /\ dom' = p.d
             /\ hist' = [notePrefer(hist, dom, c) EXCEPT
                            !.docChanged = IF ~throws /\ found THEN FALSE ELSE @,
                            !.unseen = IF query THEN FALSE ELSE @]
             /\ IF throws
                THEN /\ attempts' = attempts + 1
                     /\ tickSched' = "timeout"
                     /\ ctl' = c
                     /\ UNCHANGED <<initPc, mon>>
                ELSE IF found
                THEN /\ attempts' = 0
                     /\ tickSched' = "none"
                     /\ ctl' = createFloatingUI(r)
                     /\ initPc' = "ready"
                     /\ mon' = startMonitoring(mon)
                ELSE IF attempts + 1 >= maxAttempts
                THEN /\ attempts' = 0
                     /\ tickSched' = "none"
                     /\ ctl' = c
                     /\ initPc' = "failed"
                     /\ UNCHANGED mon
                ELSE /\ attempts' = attempts + 1
                     /\ tickSched' = "raf"
                     /\ ctl' = c
                     /\ UNCHANGED <<initPc, mon>>
    /\ prefs' = IF ctl'.floatingUI /\ ~ctl.floatingUI THEN showSettings(ctl', prefs) ELSE prefs
    /\ UNCHANGED eval

----------------------------------------------------------------------------
(* The host page mutates the document; the observer callback runs with it *)

\* processChanges without the isProcessing test
processChanges_always(m) ==
    [m EXCEPT !.isProcessing = TRUE, !.pendingCheck = FALSE, !.raf = @ + 1]

\* processChanges up to the requestAnimationFrame it schedules
processChanges(m) ==
    IF m.isProcessing
    THEN [m EXCEPT !.pendingCheck = TRUE]
    ELSE [m EXCEPT !.isProcessing = TRUE, !.pendingCheck = FALSE, !.raf = @ + 1]

\* the MutationObserver callback for a mutation that added a frame or a video
observerCallback(m) == IF m.observer THEN processChanges(m) ELSE m

EnvStep ==
    /\ ctl' = Begin(ctl)
    /\ UNCHANGED <<initPc, attempts, tickSched, hist, eval, prefs>>

\* a step of the page that puts in or takes out a frame or a video element
DomStep ==
    /\ ctl' = Begin(ctl)
    /\ hist' = [hist EXCEPT !.docChanged = TRUE]
    /\ UNCHANGED <<initPc, attempts, tickSched, eval, prefs>>

\* a step of the page that adds a frame or a video element: the document holds
\* an element that no query of the controller has seen yet
AddStep ==
    /\ ctl' = Begin(ctl)
    /\ hist' = [hist EXCEPT !.docChanged = TRUE, !.unseen = TRUE]
    /\ UNCHANGED <<initPc, attempts, tickSched, eval, prefs>>

\* the page inserts a new frame, which becomes the first match of the selectors
DomInsertFrame ==
    /\ Running
    /\ dom.framesCreated < MaxFrames
    /\ dom' = [dom EXCEPT !.frame = dom.framesCreated + 1, !.framesCreated = @ + 1]
    /\ mon' = observerCallback(mon)
    /\ AddStep

\* the page removes the frame: no added node, so the observer callback does nothing
DomRemoveFrame ==
    /\ Running
    /\ dom.frame # 0
    /\ dom' = [dom EXCEPT !.frame = 0]
    /\ UNCHANGED mon
    /\ DomStep

\* the page inserts a new video element
DomInsertVideo ==
    /\ Running
    /\ dom.videosCreated < MaxVideos
    /\ dom' = [dom EXCEPT !.video = dom.videosCreated + 1, !.videosCreated = @ + 1]
    /\ mon' = observerCallback(mon)
    /\ AddStep

\* the page removes the video element
DomRemoveVideo ==
    /\ Running
    /\ dom.video # 0
    /\ dom' = [dom EXCEPT !.video = 0]
    /\ UNCHANGED mon
    /\ DomStep

\* what the animation-frame callback of processChanges does to the controller
reattach(c, dm, vid, link, vdur, th) ==
    IF dm # 0 /\ dm # c.playerFrame
    THEN setupPlayer([c EXCEPT !.playerFrame = dm, !.html5Video = 0], link, vdur, th)
    ELSE IF vid # 0 /\ vid # c.html5Video
    THEN setupPlayer([c EXCEPT !.html5Video = vid, !.playerFrame = 0], link, vdur, th)
    ELSE c

\* the animation-frame callback of processChanges: one reattachment pass
MonitorPass ==
    /\ Running
    /\ mon.raf > 0
    /\ \E vdur \in DurVals \cup {NaN} :
         LET p == tryPreferServer(Begin(ctl), dom)
             c == p.c
             r == reattach(c, dom.frame, dom.video, dom.next, vdur, dom.postThrows)
         IN  /\ ((r.html5Video = 0 \/ r.monitors = c.monitors) => vdur = NaN)
             /\ ctl' = r
             /\ dom' = p.d
             /\ hist' = [notePrefer(hist, dom, c) EXCEPT
                            !.played = IF r.monitors > c.monitors THEN FALSE ELSE @,
                            !.docChanged = IF r.monitors > c.monitors THEN FALSE ELSE @,
                            !.unseen = FALSE]
    /\ mon' = [mon EXCEPT !.raf = @ - 1, !.isProcessing = FALSE,
                          !.timers = IF mon.pendingCheck THEN @ + 1 ELSE @]
    /\ UNCHANGED <<initPc, attempts, tickSched, eval, prefs>>

\* setTimeout(processChanges, 16) fires
RecheckTimer ==
    /\ Running
    /\ mon.timers > 0
    /\ mon' = processChanges([mon EXCEPT !.timers = @ - 1])
    /\ UNCHANGED dom
    /\ EnvStep

----------------------------------------------------------------------------
(* Events of the surfaces *)

\* postMessage to the attached frame throws: the frame is in the document (it has
\* a contentWindow) and its window refuses the message
PostThrows == dom.postThrows /\ ctl.playerFrame # 0 /\ ctl.playerFrame = dom.frame

\* origins of the windows that post messages
DailymotionOrigin == <<"https://", "www", ".", "dailymotion", ".", "com">>

OtherOrigin == <<"https://", "ads", ".", "example">>

\* the listeners setupPlayer put on video element v are never removed before the
\* page unloads: v fires them while it is in the document or attached
CanFire(v) ==
    /\ ctl.videoListeners[v] > 0
    /\ (v = dom.video \/ v = ctl.html5Video)

\* handler h runs n times in one event dispatch (once per registered copy)
Handled(h(_), n, isPlay) ==
    /\ ctl' = Dispatch(h, Begin(ctl), n)
    /\ hist' = [hist EXCEPT !.played = @ \/ isPlay]
    /\ UNCHANGED <<initPc, attempts, tickSched, dom, mon, eval, prefs>>

TimersFit(n) == ctl.introSkipStart > 0 => ctl.introTimers + n <= MaxTimers

\* 'play' on video element v: playHandler
OnVideoPlay(v) ==
    /\ CanFire(v)
    /\ TimersFit(ctl.videoListeners[v])
    /\ Handled(handlePlay, ctl.videoListeners[v], TRUE)

\* 'pause' on video element v: pauseHandler
OnVideoPause(v) ==
    /\ CanFire(v)
    /\ Handled(handlePause, ctl.videoListeners[v], FALSE)

\* 'timeupdate' on video element v: timeHandler reads v.currentTime (t)
OnVideoTimeUpdate(v, t) ==
    /\ CanFire(v)
    /\ Handled(LAMBDA c : handleTimeUpdate(c, [currentTime |-> t]),
               ctl.videoListeners[v], FALSE)

\* 'durationchange' on video element v: durationHandler reads v.duration (d)
OnVideoDurationChange(v, d) ==
    /\ CanFire(v)
    /\ Handled(LAMBDA c : handleDurationChange(c, [duration |-> d]),
               ctl.videoListeners[v], FALSE)

\* 'ended' on video element v: endedHandler
OnVideoEnded(v) ==
    /\ CanFire(v)
    /\ Handled(handleEnded, ctl.videoListeners[v], FALSE)

VideoPlay == Running /\ \E v \in VideoIds : OnVideoPlay(v)

VideoPause == Running /\ \E v \in VideoIds : OnVideoPause(v)

VideoTimeUpdate == Running /\ \E v \in VideoIds, t \in TimeVals : OnVideoTimeUpdate(v, t)

VideoDurationChange ==
    Running /\ \E v \in VideoIds, d \in DurVals \cup {NaN} : OnVideoDurationChange(v, d)

VideoEnded == Running /\ \E v \in VideoIds : OnVideoEnded(v)

\* the message is a play event that handlePlayerMessage hands on
isPlay(origin, event) == fromDailymotion(origin) /\ isObject(event) /\ tagOf(event) = "play"

\* a 'message' event on the window, posted by frame f with the given origin and
\* payload; every messageHandler registered by setupPlayer receives it
OnMessage(f, origin, event) ==
    /\ f \in 1..dom.framesCreated
    /\ ctl.messageHandlers > 0
    /\ (isPlay(origin, event) => TimersFit(ctl.messageHandlers))
    /\ Handled(LAMBDA c : handlePlayerMessage(c, origin, event), ctl.messageHandlers,
               isPlay(origin, event))

\* the messages frame f posts with the given origin
Posts(f, origin) ==
    \/ \E e \in {"play", "pause", "ended"} : OnMessage(f, origin, [event |-> e, data |-> 0])
    \/ \E t \in TimeVals :
         \/ OnMessage(f, origin, [event |-> "timeupdate", data |-> [currentTime |-> t]])
         \/ OnMessage(f, origin, [event |-> "current_time", data |-> t])
    \/ \E d \in DurVals :
         \/ OnMessage(f, origin, [event |-> "durationchange", data |-> [duration |-> d]])
         \/ OnMessage(f, origin, [event |-> "duration", data |-> d])
    \/ \E b \in BOOLEAN :
         OnMessage(f, origin, [event |-> "player_state", data |-> [isPlaying |-> b]])

WindowMessage ==
    /\ Running
    /\ \E f \in FrameIds :
         \/ Posts(f, DailymotionOrigin)
         \/ OnMessage(f, OtherOrigin, [event |-> "play", data |-> 0])

\* 'load' on a frame setupPlayer was run for: loadHandler sets playerReady and
\* attachPlayerListeners asks the current frame for its duration and state
FrameLoad ==
    /\ Running
    /\ \E f \in FrameIds :
         /\ ctl.loadListeners[f] > 0
         /\ f = dom.frame
         /\ Handled(LAMBDA c : attachPlayerListeners([c EXCEPT !.playerReady = TRUE],
                                                      PostThrows),
                    ctl.loadListeners[f], FALSE)

----------------------------------------------------------------------------
(* Timers and animation frames of the controller *)

\* a pass of a playback monitor loop once a second has passed and playerReady holds
PlaybackPoll ==
    /\ Running
    /\ ctl.monitors > 0
    /\ ctl.playerReady
    /\ \E vtime \in TimeVals \cup {0} :
         /\ ((ctl.html5Video = 0 \/ ~ctl.isPlaying) => vtime = 0)
         /\ Handled(LAMBDA c : monitor(c, vtime, PostThrows), 1, FALSE)

\* the 500 ms timer of handlePlay fires: seekTo(introSkipStart)
IntroTimer ==
    /\ Running
    /\ ctl.introTimers > 0
    /\ ctl' = seekTo(Begin(ctl), PostThrows)
    /\ UNCHANGED <<initPc, attempts, tickSched, dom, mon, hist, eval, prefs>>

----------------------------------------------------------------------------
(* The user and the panel *)

PanelVisible == ctl.floatingUI /\ ctl.panelDisplay

\* the manual next-episode control is on screen
NextControlVisible == PanelVisible /\ ctl.nextBtnDisplay

\* click on the close button (or Escape): FloatingUI.hide
ClosePanel ==
    /\ Running
    /\ PanelVisible
    /\ ctl' = hide(Begin(ctl))
    /\ UNCHANGED <<initPc, attempts, tickSched, dom, mon, hist, eval, prefs>>

\* click on the Next Episode button: navigateToNextEpisode
ClickNext ==
    /\ Running
    /\ NextControlVisible
    /\ Handled(navigateToNextEpisode, 1, FALSE)

----------------------------------------------------------------------------

Next ==
    \/ LocatorTick
    \/ DomInsertFrame
    \/ DomRemoveFrame
    \/ DomInsertVideo
    \/ DomRemoveVideo
    \/ MonitorPass
    \/ RecheckTimer
    \/ VideoPlay
    \/ VideoPause
    \/ VideoTimeUpdate
    \/ VideoDurationChange
    \/ VideoEnded
    \/ WindowMessage
    \/ FrameLoad
    \/ PlaybackPoll
    \/ IntroTimer
    \/ ClosePanel
    \/ ClickNext

Spec == Init /\ [][Next]_vars

----------------------------------------------------------------------------
(* Fairness: a scheduled animation frame or timer of the controller runs *)

FairSpec ==
    /\ Spec
    /\ WF_vars(LocatorTick)
    /\ WF_vars(MonitorPass)
    /\ WF_vars(RecheckTimer)
    /\ WF_vars(IntroTimer)

----------------------------------------------------------------------------
(* The server control, on a page whose player is a Dailymotion frame: the page
   creates the control, the user picks a server, and the locator and the change
   monitor call tryPreferServer *)

\* the page inserts the server control, or replaces it by a new one; a select
\* element is no player node, so the observer callback does not run a pass
SelectInserted ==
    /\ Running
    /\ dom.select.made < MaxSelects
    /\ \E opts \in ServerLists : dom' = [dom EXCEPT !.select = NewSelect(opts, @.made + 1)]
    /\ UNCHANGED mon
    /\ EnvStep

\* the user picks option i of the server control: its change event reaches the
\* changeHandler if tryPreferServer has bound one to this element
UserSelects ==
    /\ Running
    /\ dom.select.present
    /\ \E i \in 1..Len(dom.select.options) :
         /\ i # dom.select.selected
         /\ dom' = [dom EXCEPT !.select.selected = i]
    /\ ctl' = IF dom.select.bound /\ ~ctl.serverPreferAttempted
              THEN [Begin(ctl) EXCEPT !.userServerOverride = TRUE]
              ELSE Begin(ctl)
    /\ hist' = [hist EXCEPT !.userChose = @ \/ ~hist.applied]
    /\ UNCHANGED <<initPc, attempts, tickSched, mon, eval, prefs>>

ServerInit ==
    /\ ctl = InitCtl(0, 0, 0)
    /\ \E hasFrame \in BOOLEAN :
         \/ dom = InitDom(hasFrame, FALSE, FALSE)
         \/ \E opts \in ServerLists :
              dom = [InitDom(hasFrame, FALSE, FALSE) EXCEPT !.select = NewSelect(opts, 1)]
    /\ initPc = "findPlayer"
    /\ attempts = 0
    /\ tickSched = "sync"
    /\ mon = InitMon
    /\ hist = InitHist
    /\ eval = InitEval
    /\ prefs = InitPrefs

ServerNext ==
    \/ LocatorTick
    \/ DomInsertFrame
    \/ MonitorPass
    \/ SelectInserted
    \/ UserSelects

ServerSpec == ServerInit /\ [][ServerNext]_vars

(* findPreferredOption on its own: a page with any of the option lists, on which
   the locator runs and calls tryPreferServer *)

OptionInit ==
    /\ ctl = InitCtl(0, 0, 0)
    /\ \E hasFrame \in BOOLEAN, opts \in OptionLists, i \in 1..3 :
         /\ i <= Len(opts) \/ i = 1
         /\ dom = [InitDom(hasFrame, FALSE, FALSE) EXCEPT
                     !.select = [NewSelect(opts, 1) EXCEPT
                                   !.selected = IF opts = <<>> THEN 0 ELSE i]]
    /\ initPc = "findPlayer"
    /\ attempts = 0
    /\ tickSched = "sync"
    /\ mon = InitMon
    /\ hist = InitHist
    /\ eval = InitEval
    /\ prefs = InitPrefs

OptionNext == LocatorTick

OptionSpec == OptionInit /\ [][OptionNext]_vars

----------------------------------------------------------------------------
(* The command bridge, on a page whose frame may refuse messages *)

\* the frame's window starts to refuse messages (postMessage throws), or stops
BridgeBreaks ==
    /\ Running
    /\ dom' = [dom EXCEPT !.postThrows = ~@]
    /\ UNCHANGED mon
    /\ EnvStep

\* a timer of retryWithBackoff fires: the operation sends the same command again
RetryTimer ==
    /\ Running
    /\ \E e \in ctl.retryTimers :
         ctl' = sendPlayerCommand([Begin(ctl) EXCEPT !.retryTimers = @ \ {e}],
                                  e.cmd, e.tries, PostThrows)
    /\ UNCHANGED <<initPc, attempts, tickSched, dom, mon, hist, eval, prefs>>

\* the attached frame reports play and pause, the events that make the
\* controller send commands
PlayPauseMessage ==
    /\ Running
    /\ ctl.playerFrame # 0
    /\ \E e \in {"play", "pause"} :
         OnMessage(ctl.playerFrame, DailymotionOrigin, [event |-> e, data |-> 0])

BridgeInit ==
    /\ ctl = InitCtl(9000, 0, 0)
    /\ \E th \in BOOLEAN : dom = [InitDom(TRUE, FALSE, FALSE) EXCEPT !.postThrows = th]
    /\ initPc = "findPlayer"
    /\ attempts = 0
    /\ tickSched = "sync"
    /\ mon = InitMon
    /\ hist = InitHist
    /\ eval = InitEval
    /\ prefs = InitPrefs

BridgeNext ==
    \/ LocatorTick
    \/ FrameLoad
    \/ PlayPauseMessage
    \/ PlaybackPoll
    \/ IntroTimer
    \/ RetryTimer
    \/ BridgeBreaks

BridgeSpec == BridgeInit /\ [][BridgeNext]_vars

----------------------------------------------------------------------------
(* The time fields of the panel, on their own: a text the user is typing is
   parsed; the seconds the controller has stored are shown formatted and parsed
   again on Save *)

\* the seconds a setting may hold and the panel may have to show
ShownSeconds == 0..MaxSeconds

\* an 'input' event of a time field: validateTimeInput parses the text typed
TypeTime ==
    /\ eval.fn = "typing"
    /\ eval' = [eval EXCEPT !.fn = "typed", !.res = parseTimeToSeconds(eval.text)]
    /\ UNCHANGED <<ctl, initPc, attempts, tickSched, dom, mon, hist, prefs>>

\* FloatingUI.updateSettings: a time field shows formatTime of the stored seconds
ShowTime ==
    /\ eval.fn = "stored"
    /\ eval' = [eval EXCEPT !.fn = "shown", !.text = formatTime(eval.secs)]
    /\ UNCHANGED <<ctl, initPc, attempts, tickSched, dom, mon, hist, prefs>>

\* click on Save with the field as shown: handleSave parses the text of the field
SaveShown ==
    /\ eval.fn = "shown"
    /\ eval' = [eval EXCEPT !.fn = "saved", !.res = parseTimeToSeconds(eval.text)]
    /\ UNCHANGED <<ctl, initPc, attempts, tickSched, dom, mon, hist, prefs>>

TimeInit ==
    /\ ctl = InitCtl(0, 0, 0)
    /\ dom = InitDom(FALSE, FALSE, FALSE)
    /\ initPc = "ready"
    /\ attempts = 0
    /\ tickSched = "none"
    /\ mon = InitMon
    /\ hist = InitHist
    /\ prefs = InitPrefs
    /\ \/ \E v \in TimeTexts : eval = [InitEval EXCEPT !.fn = "typing", !.text = v]
       \/ \E x \in ShownSeconds : eval = [InitEval EXCEPT !.fn = "stored", !.secs = x]

TimeNext ==
    \/ TypeTime
    \/ ShowTime
    \/ SaveShown

TimeSpec == TimeInit /\ [][TimeNext]_vars

----------------------------------------------------------------------------
(* The preference store over page loads: loadSettings at the start of init(),
   the Save button of the page panel, the popup of the extension, its
   saveSettings message, and a store whose writes may throw *)

\* what the store may hold for a series when a page loads (90 s, 90.5 s,
\* 1069 s, 24 hours, one second more, -5 s, a field that is not a number)
StoredValues ==
    {Absent, Malformed, NullValue, NoFields, Record(9000, 9000, 106900),
     Record(Hundredths(MaxSeconds + 1), -500, NaN), Record(9050, 0, Hundredths(MaxSeconds))}

\* texts typed into the two time fields of the page panel before a click on
\* Save: 1:30 and 17:49, 1:75 and 17:49, 1:30 and 90000
PanelInputs ==
    {<<MinSec(1, 30), MinSec(17, 49)>>, <<MinSec(1, 75), MinSec(17, 49)>>,
     <<MinSec(1, 30), Dec(90000)>>}

\* texts typed into the popup: the two time fields and the outro duration
PopupInputs ==
    {<<MinSec(1, 30), Dec(MaxSeconds), Dec(90)>>, <<MinSec(1, 75), <<>>, <<>>>>,
     <<MinSec(1, 30), <<>>, Dec(MaxDuration + 1)>>}

\* the data of a saveSettings message: introSkipStart, outroSkipDuration, outroStartSeconds
ArgTriples ==
    {<<Hundredths(MaxSeconds), 0, 106900>>, <<Hundredths(MaxSeconds + 1), 9000, 106900>>,
     <<-500, 9000, 0>>, <<9050, NaN, 106900>>}

\* the three settings of the controller
settingsOf(c) == <<c.introSkipStart, c.outroSkipDuration, c.outroStartSeconds>>

\* history: a call of updateSettings whose write went through is the last save
\* of the series, which is no longer one that was never saved
noteSave(p) ==
    IF p.call.made /\ ~p.writeThrows
    THEN [p EXCEPT !.saved[p.series] = [written |-> TRUE, args |-> p.call.args],
                   !.fresh = @ \ {p.series}]
    ELSE p

\* init(): await this.loadSettings(); a rejection would land in the catch of init()
LoadSettings ==
    /\ Running
    /\ initPc = "loadSettings"
    /\ LET stored == prefs.store[keyOf(prefs.series)]
           r == IF prefs.impl = "userscript" THEN loadSettings(Begin(ctl), stored)
                ELSE loadSettingsExt(Begin(ctl), stored)
       IN  /\ ctl' = r.c
           /\ initPc' = IF r.threw THEN "failed" ELSE "findPlayer"
    /\ prefs' = [BeginP(prefs) EXCEPT !.op = "load"]
    /\ UNCHANGED <<attempts, tickSched, dom, mon, hist, eval>>

\* the userscript's locator on a page whose player is there at the first query
PlayerFound == prefs.impl = "userscript" /\ LocatorTick /\ initPc' = "ready"

\* createFloatingUI of the content script: the panel is made only if the
\* series has no settings
createFloatingUIExt(c) == IF settingsOf(c) = <<0, 0, 0>> THEN createFloatingUI(c) ELSE c

\* the tick of the content script's findPlayer that finds a surface, and
\* init() from there: setupPlayer, createFloatingUI, startMonitoring
PlayerFoundExt ==
    /\ Running
    /\ prefs.impl = "content"
    /\ initPc = "findPlayer"
    /\ dom.frame # 0 \/ dom.video # 0
    /\ \E vdur \in DurVals \cup {NaN} :
         LET r == setupPlayerExt([Begin(ctl) EXCEPT !.playerFrame = dom.frame,
                                                    !.html5Video = dom.video],
                                 dom.addr, dom.next, vdur)
         IN  /\ (dom.video = 0 => vdur = NaN)
             /\ ctl' = createFloatingUIExt(r.c)
             /\ dom' = [dom EXCEPT !.addr = r.a]
    /\ initPc' = "ready"
    /\ tickSched' = "none"
    /\ mon' = startMonitoring(mon)
    /\ prefs' = IF ctl'.floatingUI THEN showSettings(ctl', prefs) ELSE prefs
    /\ UNCHANGED <<attempts, hist, eval>>

\* click on Save in the page panel with these texts in the two time fields
PanelSave(introValue, outroValue) ==
    /\ Running
    /\ PanelVisible
    /\ LET r == IF prefs.impl = "userscript"
                THEN handleSave(Begin(ctl), BeginP(prefs), introValue, outroValue)
                ELSE handleSaveExt(Begin(ctl), BeginP(prefs), introValue, outroValue)
       IN  /\ ctl' = r.c
           /\ prefs' = noteSave([r.p EXCEPT !.op = "panel"])
    /\ UNCHANGED <<initPc, attempts, tickSched, dom, mon, hist, eval>>

\* click on Save in the popup of the extension
PopupSave(introValue, outroValue, durationValue) ==
    /\ Running
    /\ prefs.impl = "content"
    /\ initPc # "loadSettings"
    /\ LET r == popupHandleSave(Begin(ctl), BeginP(prefs), introValue, outroValue,
                                durationValue)
       IN  /\ ctl' = r.c
           /\ prefs' = noteSave([r.p EXCEPT !.op = "popup"])
    /\ UNCHANGED <<initPc, attempts, tickSched, dom, mon, hist, eval>>

\* a saveSettings message from another page of the extension
SaveMessage(hasData, data) ==
    /\ Running
    /\ prefs.impl = "content"
    /\ initPc # "loadSettings"
    /\ LET r == onSaveSettings(Begin(ctl), BeginP(prefs), hasData, data)
       IN  /\ ctl' = r.c
           /\ prefs' = noteSave([r.p EXCEPT !.op = "message"])
    /\ UNCHANGED <<initPc, attempts, tickSched, dom, mon, hist, eval>>

\* the message listener of the content script, case 'showFloatingUI'
ShowFloatingUI ==
    /\ Running
    /\ prefs.impl = "content"
    /\ initPc # "loadSettings"
    /\ ~PanelVisible
    /\ ctl' = IF ~ctl.floatingUI THEN createFloatingUI(Begin(ctl))
              ELSE [Begin(ctl) EXCEPT !.panelDisplay = TRUE]
    /\ prefs' = [IF ~ctl.floatingUI THEN showSettings(ctl, BeginP(prefs)) ELSE BeginP(prefs)
                    EXCEPT !.response = "ok", !.op = "show"]
    /\ UNCHANGED <<initPc, attempts, tickSched, dom, mon, hist, eval>>

\* the store fills up: from now on its writes throw
StorageFills ==
    /\ ~prefs.writeThrows
    /\ prefs' = [prefs EXCEPT !.writeThrows = TRUE]
    /\ UNCHANGED <<ctl, initPc, attempts, tickSched, dom, mon, hist, eval>>

\* the user opens a page of a series: a new document and a new controller,
\* the same store
PageLoad(series) ==
    /\ prefs.loads < MaxLoads
    /\ initPc # "loadSettings"
    /\ ctl' = InitCtl(0, 0, 0)
    /\ dom' = InitDom(FALSE, TRUE, FALSE)
    /\ initPc' = "loadSettings"
    /\ attempts' = 0
    /\ tickSched' = "sync"
    /\ mon' = InitMon
    /\ hist' = InitHist
    /\ prefs' = [InitPrefs EXCEPT !.impl = prefs.impl, !.series = series,
                                  !.store = prefs.store, !.writeThrows = prefs.writeThrows,
                                  !.saved = prefs.saved, !.fresh = prefs.fresh,
                                  !.loads = prefs.loads + 1,
                                  !.op = "open"]
    /\ UNCHANGED eval

StoreInit ==
    /\ ctl = InitCtl(0, 0, 0)
    /\ dom = InitDom(FALSE, TRUE, FALSE)
    /\ initPc = "loadSettings"
    /\ attempts = 0
    /\ tickSched = "sync"
    /\ mon = InitMon
    /\ hist = InitHist
    /\ eval = InitEval
    /\ \E impl \in {"userscript", "content"}, throws \in BOOLEAN,
          mine \in StoredValues :
           prefs = [InitPrefs EXCEPT !.impl = impl, !.writeThrows = throws,
                                    !.fresh = IF mine = Absent THEN SeriesIds
                                              ELSE SeriesIds \ {InitPrefs.series},
                                    !.store = [k \in Keys |->
                                                  IF k = keyOf(InitPrefs.series) THEN mine
                                                  ELSE Absent]]

StoreNext ==
    \/ LoadSettings
    \/ PlayerFound
    \/ PlayerFoundExt
    \/ \E typed \in PanelInputs : PanelSave(typed[1], typed[2])
    \/ \E typed \in PopupInputs : PopupSave(typed[1], typed[2], typed[3])
    \/ \E hasData \in BOOLEAN, data \in ArgTriples : SaveMessage(hasData, data)
    \/ ShowFloatingUI
    \/ StorageFills
    \/ \E series \in SeriesIds : PageLoad(series)

StoreSpec == StoreInit /\ [][StoreNext]_vars

----------------------------------------------------------------------------
(* The content script and the bridge: commands posted to the attached frame,
   messages of other scripts, and the bridge consuming them *)

\* messages the frame can hold undelivered
MaxInbox == 3

\* positions the controller seeks to: 90 s and 1069.5 s
SeekTimes == {9000, 106950}

\* commands the controller issues
Commands ==
    {[command |-> "play", time |-> 0], [command |-> "pause", time |-> 0]}
        \cup {[command |-> "seek", time |-> t] : t \in SeekTimes}

\* the content script sends a command to the attached frame: postMessage
\* queues each payload for the frame's window
IssueCommand(cmd) ==
    /\ Running
    /\ ctl.playerFrame # 0
    /\ LET payloads == IF cmd.command = "seek" THEN seekToExt(dom.bridge.dailymotion, cmd.time)
                       ELSE sendPlayerCommandExt(dom.bridge.dailymotion, cmd.command, 0)
       IN  /\ Len(dom.bridge.inbox) + Len(payloads) <= MaxInbox
           /\ dom' = [dom EXCEPT
                        !.bridge.inbox = @ \o [i \in 1..Len(payloads) |->
                                                  [origin |-> HostOrigin, data |-> payloads[i]]],
                        !.bridge.issued = [command |-> cmd.command,
                                           time |-> validateTimeValue(cmd.time)],
                        !.bridge.ran = NoBridge.ran]
    /\ UNCHANGED <<ctl, initPc, attempts, tickSched, mon, hist, eval, prefs>>

\* origins of the windows that can post to the frame: the host page, a subdomain
\* of it, two sites whose names resemble it, and a document with an opaque origin
SenderOrigins ==
    {HostOrigin, UrlOrigin(<<"www", "animexin", "dev">>),
     UrlOrigin(<<"notanimexin", "dev">>), UrlOrigin(<<"animexin", "dev", "evil", "io">>),
     NullOrigin}

\* commands other scripts send
ForeignCommands == {[command |-> "pause", time |-> 0], [command |-> "seek", time |-> 9000]}

\* another script posts a message in the schema of the bridge to the frame
ForeignMessage(origin, cmd) ==
    /\ dom.bridge.inbox = <<>>
    /\ dom' = [dom EXCEPT !.bridge.inbox =
                   Append(@, [origin |-> origin, data |-> BridgeCommand(cmd.command, cmd.time)])]
    /\ UNCHANGED <<ctl, initPc, attempts, tickSched, mon, hist, eval, prefs>>

\* the frame's window delivers its oldest message; in a Dailymotion frame the
\* listener of the bridge handles it
BridgeReceive ==
    /\ dom.bridge.inbox # <<>>
    /\ \E playAllowed \in BOOLEAN :
         LET m == Head(dom.bridge.inbox)
             b == [dom.bridge EXCEPT !.inbox = Tail(@)]
         IN  dom' = [dom EXCEPT !.bridge = IF b.dailymotion
                                           THEN bridgeListener(b, m.origin, m.data, playAllowed)
                                           ELSE b]
    /\ UNCHANGED <<ctl, initPc, attempts, tickSched, mon, hist, eval, prefs>>

\* the player inside the frame mounts its video element: the MutationObserver
\* of the bridge runs findVideo
VideoMounts ==
    /\ dom.bridge.dailymotion
    /\ ~dom.bridge.hasVideo
    /\ dom' = [dom EXCEPT !.bridge = findVideo([@ EXCEPT !.hasVideo = TRUE])]
    /\ UNCHANGED <<ctl, initPc, attempts, tickSched, mon, hist, eval, prefs>>

\* the user pauses or resumes in the player itself: the listeners of the
\* bridge report it to the parent
UserToggles ==
    /\ dom.bridge.videoEl
    /\ dom' = [dom EXCEPT !.bridge = emit([@ EXCEPT !.paused = ~@],
                                          IF dom.bridge.paused THEN "play" ELSE "pause", 0)]
    /\ UNCHANGED <<ctl, initPc, attempts, tickSched, mon, hist, eval, prefs>>

\* a page whose controller has attached a frame; in a Dailymotion frame the
\* bridge has run: findVideo() and emit('apiready')
DmInit ==
    /\ ctl = [InitCtl(9000, 0, 106900) EXCEPT !.playerFrame = 1, !.playerReady = TRUE]
    /\ \E dailymotion \in BOOLEAN, hasVideo \in BOOLEAN :
         dom = [InitDom(TRUE, FALSE, TRUE) EXCEPT
                   !.bridge = IF dailymotion
                              THEN emit(findVideo([NoBridge EXCEPT !.dailymotion = TRUE,
                                                                   !.hasVideo = hasVideo]),
                                        "apiready", 0)
                              ELSE NoBridge]
    /\ initPc = "ready"
    /\ attempts = 0
    /\ tickSched = "none"
    /\ mon = InitMon
    /\ hist = InitHist
    /\ eval = InitEval
    /\ prefs = InitPrefs

DmNext ==
    \/ \E cmd \in Commands : IssueCommand(cmd)
    \/ \E origin \in SenderOrigins, cmd \in ForeignCommands :
           ForeignMessage(origin, cmd)
    \/ BridgeReceive
    \/ VideoMounts
    \/ UserToggles

DmSpec == DmInit /\ [][DmNext]_vars

----------------------------------------------------------------------------
(* Properties *)

\* the controller holds a surface
IsAttached == ctl.playerFrame # 0 \/ ctl.html5Video # 0

\* an event of video element v, whatever its kind
VideoEventOf(v) ==
    \/ OnVideoPlay(v)
    \/ OnVideoPause(v)
    \/ \E t \in TimeVals : OnVideoTimeUpdate(v, t)
    \/ \E d \in DurVals \cup {NaN} : OnVideoDurationChange(v, d)
    \/ OnVideoEnded(v)

\* an event of a surface that was attached once and is not the attached one now:
\* a listener of an old video element fires, or an old frame's message arrives
StaleEvent ==
    \/ \E v \in VideoIds : v # ctl.html5Video /\ VideoEventOf(v)
    \/ \E f \in FrameIds :
         f # ctl.playerFrame /\ ctl.loadListeners[f] > 0 /\ Posts(f, DailymotionOrigin)

\* C1: once the change monitor has attached another surface, an event of the old
\* surface changes none of isPlaying, currentTime and duration, schedules no seek
\* and triggers no navigation.
C1_StaleEventIgnored ==
    [][StaleEvent =>
         /\ ctl'.isPlaying = ctl.isPlaying
         /\ ctl'.currentTime = ctl.currentTime
         /\ ctl'.duration = ctl.duration
         /\ ctl'.introTimers = ctl.introTimers
         /\ ~ctl'.fx.nav]_vars

\* C2: a pass of the change monitor that attaches a surface leaves isPlaying,
\* currentTime and duration at their unknown values (false, 0, 0); only the
\* duration a new video element already reports may replace the 0.
C2_ResetOnReattach ==
    [][(initPc = "ready" /\ Attach) =>
         /\ ~ctl'.isPlaying
         /\ ctl'.currentTime = 0
         /\ (ctl'.html5Video = 0 => ctl'.duration = 0)]_vars

\* C3: per attach the intro seek is scheduled at most once: once a play event was
\* handled since the attach, a play event that follows a pause (a resume)
\* schedules no intro seek.
C3_IntroSeekOncePerAttach ==
    [][(hist.played /\ ~ctl.isPlaying /\ ~Attach) => ctl'.introTimers <= ctl.introTimers]_vars

\* timeUpdated(t) of the attached surface: the timeupdate of the attached video
\* element or the timeupdate message of the attached frame
TimeUpdated(t) ==
    \/ ctl.html5Video # 0 /\ OnVideoTimeUpdate(ctl.html5Video, t)
    \/ /\ ctl.playerFrame # 0
       /\ OnMessage(ctl.playerFrame, DailymotionOrigin,
                    [event |-> "timeupdate", data |-> [currentTime |-> t]])

\* C4: with an explicit outroStartSeconds > 0, every timeUpdated(t) with
\* t >= outroStartSeconds - tolerance triggers navigation, whatever the fallback
\* and whether the duration is known or not.
C4_ExplicitOutroTriggers ==
    [][\A t \in TimeVals :
         (/\ TimeUpdated(t)
          /\ ctl.outroStartSeconds > 0
          /\ t >= ctl.outroStartSeconds - OutroTolerance) => ctl'.fx.nav]_vars

\* C5: with no explicit outro start, a fallback f > 0 and a known duration d > 0,
\* timeUpdated(t) triggers navigation for every t >= d - f - 0.5 s and for no
\* t < d - f - 1 s.
C5_FallbackOutroTriggers ==
    [][\A t \in TimeVals :
         (/\ TimeUpdated(t)
          /\ ctl.outroStartSeconds = 0
          /\ ctl.outroSkipDuration > 0
          /\ ctl.duration > 0) =>
             /\ (t >= ctl.duration - ctl.outroSkipDuration - 50 => ctl'.fx.nav)
             /\ (t < ctl.duration - ctl.outroSkipDuration - 100 => ~ctl'.fx.nav)]_vars

\* C6: after a handler triggered navigation while no next-episode link is known,
\* the manual next-episode control is visible.
C6_NoTargetShowsControl ==
    (ctl.fx.nav /\ ~ctl.nextEpisodeLink) => NextControlVisible

\* C7: once the manual control has been shown because navigation found no target,
\* the outro check (from an event or from the playback poll) makes no further
\* navigation attempt.
C7_NoRetryAfterNoTarget ==
    [][(ctl.nextBtnDisplay /\ ~ctl.nextEpisodeLink) => ~ctl'.fx.outroNav]_vars

\* C8: when the locator gave up (SurfaceNotFound), the panel with the manual
\* next-episode control exists.
C8_PanelAfterSurfaceNotFound ==
    initPc = "failed" => ctl.floatingUI

\* a supported surface is in the document
SurfaceInDom == dom.frame # 0 \/ dom.video # 0

\* C9: after SurfaceNotFound, while a supported surface is in the document, the
\* change monitor is observing and has attached the surface or has a reattachment
\* pass pending.
C9_MonitorAfterSurfaceNotFound ==
    (initPc = "failed" /\ SurfaceInDom) =>
        /\ mon.observer
        /\ (IsAttached \/ mon.raf > 0 \/ mon.timers > 0)

\* C10: the locator has settled once maxAttempts attempts were made: while it is
\* still polling, fewer than maxAttempts attempts were made.
C10_LocateBounded ==
    initPc = "findPlayer" => attempts < maxAttempts

\* the locator returns with a surface in this step
LocatorReturns == initPc = "findPlayer" /\ initPc' = "ready"

\* C11: with a Dailymotion frame and a video element both in the document, after
\* the locator returns and after every change-monitor pass the attached surface
\* is the frame alone: playerFrame is set and html5Video is null.
C11_FrameOnlyWhenBoth ==
    [][((LocatorReturns \/ MonitorPass) /\ dom.frame # 0 /\ dom.video # 0) =>
         (ctl'.playerFrame # 0 /\ ctl'.html5Video = 0)]_vars

\* C12: once the user has changed the server control before any preference was
\* applied, tryPreferServer never sets the control's value nor fires a change
\* notification.
C12_NoPreferAfterUserChoice ==
    [][hist.userChose => ~ctl'.fx.setServer]_vars

\* C13: once tryPreferServer has run with the server control present, no later
\* call sets the control's value or fires a change notification, whatever the
\* control's options and selection have become.
C13_PreferOnce ==
    [][hist.preferCalls >= 1 => ~ctl'.fx.setServer]_vars

\* a later call found a preferred option that was not selected, and left it
C13_Witness == hist.later /\ hist.preferCalls = 2

\* the tier the claims give a label: 1 hardsub english dailymotion, 2 hardsub
\* english ok.ru, 0 none (placeholder, Indonesia, All Player Sub)
TierOf(o) ==
    IF o \in {HardsubEnglishDailymotion, SpacedDailymotion} THEN 1
    ELSE IF o \in {HardsubEnglishOkru, SpacedOkru} THEN 2
    ELSE 0

\* the first option of a tier, 0 if the tier is absent
FirstOfTier(opts, t) ==
    LET S == {i \in 1..Len(opts) : TierOf(opts[i]) = t}
    IN  IF S = {} THEN 0 ELSE CHOOSE i \in S : \A j \in S : i <= j

\* C14: findPreferredOption returns the first option, in document order, of the
\* highest tier present (dailymotion before ok.ru, whatever the case and white
\* space of the labels), null when no option is of a tier; the option
\* tryPreferServer selects is that one.
C14_FirstOfHighestTier ==
    dom.select.present =>
        LET opts == dom.select.options
            expected == IF FirstOfTier(opts, 1) # 0 THEN FirstOfTier(opts, 1)
                        ELSE FirstOfTier(opts, 2)
        IN  /\ findPreferredOption(opts) = expected
            /\ ctl.fx.setServer => dom.select.selected = expected

\* of two dailymotion options behind the placeholder the first was selected
C14_Witness ==
    /\ ctl.fx.setServer
    /\ dom.select.options = <<Placeholder, SpacedDailymotion, HardsubEnglishDailymotion>>
    /\ dom.select.selected = 2

\* C15: with no 'Hardsub English Dailymotion' option and an 'All Player Sub'
\* option, the 'All Player Sub' option is the preferred one, before any
\* 'Hardsub English Ok.ru' option.
C15_AllPlayerSubSecond ==
    LET opts == dom.select.options
        S == {i \in 1..Len(opts) : opts[i] = AllPlayerSub}
    IN  (dom.select.present /\ FirstOfTier(opts, 1) = 0 /\ S # {}) =>
            findPreferredOption(opts) = CHOOSE i \in S : \A j \in S : i <= j

\* C16: a command whose send throws is sent again after retryDelay * 2^k when it
\* had been re-sent k times before (1 s, 2 s, 4 s, 8 s, 16 s), up to maxRetries
\* times, whatever other commands failed before.
C16_BackoffPerCommand ==
    [][\A e \in ctl'.fx.threw :
         e.tries < maxRetries =>
             [cmd |-> e.cmd, tries |-> e.tries + 1, delay |-> retryDelay * 2^e.tries]
                 \in ctl'.retryTimers]_vars

\* the text typed was parsed
Typed == eval.fn = "typed"

\* C17: for every integer x in [0, 86400], parsing the text formatTime(x) shows
\* succeeds and returns x.
C17_RoundTrip ==
    eval.fn = "saved" => eval.res = Ok(eval.secs)

\* the text typed is m:ss, or h:mm:ss, with these components
IsMinSec(m, s) == eval.text = MinSec(m, s)
IsHourMinSec(h, m, s) == eval.text = HourMinSec(h, m, s)

C20_ParsedValue ==
    Typed =>
      /\ \A m \in TwoDigits, s \in TwoDigits :
           (IsMinSec(m, s) /\ s < 60) => eval.res = Ok(m * 60 + s)
      /\ \A h \in TwoDigits, m \in TwoDigits, s \in TwoDigits :
           (/\ IsHourMinSec(h, m, s)
            /\ m < 60 /\ s < 60
            /\ h * 3600 + m * 60 + s <= MaxSeconds) => eval.res = Ok(h * 3600 + m * 60 + s)
      /\ \A n \in RawSeconds :
           (eval.text = Dec(n) /\ n <= MaxSeconds) => eval.res = Ok(n)
      /\ eval.text = <<"1", ":", "3", "0">> => eval.res = Ok(90)
      /\ eval.text = <<"1", "7", ":", "4", "9">> => eval.res = Ok(1069)
      /\ eval.text = <<"1", ":", "2", "3", ":", "4", "5">> => eval.res = Ok(5025)
      /\ eval.text = <<"9", "0">> => eval.res = Ok(90)

\* "1:23:45" was typed and parsed
C20_Witness ==
    Typed /\ eval.text = <<"1", ":", "2", "3", ":", "4", "5">> /\ eval.res = Ok(5025)

----------------------------------------------------------------------------
(* Properties of the preference store *)

\* the time codec refuses the text
FailsParse(text) == ~parseTimeToSeconds(text).ok

\* the step left the three settings and the store as they were
SettingsKept == settingsOf(ctl') = settingsOf(ctl) /\ prefs'.store = prefs.store

\* C21: in every settings UI a click on Save with a time field the time codec
\* refuses is aborted: the settings in memory and the stored record of the
\* series stay as they were, and the UI shows an error message.
C21_InvalidFieldAbortsSave ==
    [][/\ \A typed \in PanelInputs :
            (PanelSave(typed[1], typed[2]) /\ (FailsParse(typed[1]) \/ FailsParse(typed[2])))
                => (SettingsKept /\ prefs'.note = "error")
       /\ \A typed \in PopupInputs :
            (PopupSave(typed[1], typed[2], typed[3])
                 /\ (FailsParse(typed[1]) \/ FailsParse(typed[2])))
                => (SettingsKept /\ prefs'.popupNote = "error")]_vars

\* a setting is a whole number of seconds from 0 to 24 hours
InRange(v) == v >= 0 /\ v <= Hundredths(MaxSeconds) /\ v % 100 = 0

\* C22: after updateSettings(p) with the three fields in [0, 86400] has been
\* saved for a series, loadSettings of a page of that series gives the
\* controller the same intro offset, outro start and outro fallback; for a
\* series that was never saved it leaves the three at zero.
C22_SaveLoadRoundTrip ==
    prefs.op = "load" =>
        /\ (prefs.saved[prefs.series].written
               /\ \A i \in 1..3 : InRange(prefs.saved[prefs.series].args[i]))
              => settingsOf(ctl) = prefs.saved[prefs.series].args
        /\ prefs.series \in prefs.fresh => settingsOf(ctl) = <<0, 0, 0>>

\* a page of a series loads the settings saved from an earlier page of the
\* series, while the other series has never been saved
C22_Witness ==
    /\ prefs.op = "load"
    /\ prefs.loads = 2
    /\ prefs.saved[prefs.series].written
    /\ settingsOf(ctl) = prefs.saved[prefs.series].args
    /\ settingsOf(ctl) # <<0, 0, 0>>
    /\ \E s \in prefs.fresh : s # prefs.series

\* the fields of a stored record, in the order of the arguments of updateSettings
fieldsOf(stored) ==
    <<stored.introSkipStart, stored.outroSkipDuration, stored.outroStartSeconds>>

\* C23: when a save of the content script receives a field outside [0, 86400]
\* the save is not rejected: the record is written with that field clamped
\* into the range (86400 for a larger value, 0 for a negative one) and with
\* the fields that are in the range unchanged.
C23_OutOfRangeClamped ==
    (prefs.impl = "content" /\ prefs.call.made /\ ~prefs.writeThrows) =>
        LET stored == prefs.store[keyOf(prefs.series)]
            clamped(v) == IF v < 0 THEN 0
                          ELSE IF v > Hundredths(MaxSeconds) THEN Hundredths(MaxSeconds)
                          ELSE v
        IN  /\ stored.kind = "record"
            /\ \A i \in 1..3 :
                  (prefs.call.args[i] # NaN /\ prefs.call.args[i] % 100 = 0)
                      => fieldsOf(stored)[i] = clamped(prefs.call.args[i])

\* C24: if the write to the store throws, the save of the content script is
\* reported as failed: updateSettings announces no success, the saveSettings
\* request of the popup is answered with success = false, and the record
\* stored before is left as it was.
C24_FailedWriteReported ==
    [][(prefs.impl = "content" /\ prefs.writeThrows /\ prefs'.call.made) =>
           /\ prefs'.store = prefs.store
           /\ prefs'.note # "success"
           /\ prefs'.op \in {"popup", "message"} => prefs'.response = "fail"]_vars

\* C25: when the stored value of the series is a malformed text or is not a
\* record, loadSettings returns normally, the three settings keep their zero
\* defaults and init() goes on with the locator.
C25_LoadNeverFails ==
    (prefs.op = "load"
         /\ prefs.store[keyOf(prefs.series)].kind \in {"malformed", "null", "nofields"}) =>
        /\ settingsOf(ctl) = <<0, 0, 0>>
        /\ initPc \in {"findPlayer", "ready"}

\* the content script has read a malformed text and its locator has found the player
C25_Witness ==
    /\ prefs.impl = "content"
    /\ prefs.op = "load"
    /\ prefs.store[keyOf(prefs.series)] = Malformed
    /\ settingsOf(ctl) = <<0, 0, 0>>
    /\ initPc = "ready"

\* the three settings of the controller are whole seconds in [0, 86400]
MemoryInRange == \A i \in 1..3 : InRange(settingsOf(ctl)[i])

\* the record stored for a series, if there is one, has its three fields in range
StoredInRange(series) ==
    prefs.store[keyOf(series)].kind = "record"
        => \A i \in 1..3 : InRange(fieldsOf(prefs.store[keyOf(series)])[i])

\* C26 as stated: in the content script, after any sequence of loadSettings,
\* updateSettings and saveSettings with arbitrary arguments and arbitrary
\* stored records, the three settings are integers in [0, 86400] in memory and
\* in the persisted record.
C26_AlwaysInRange ==
    (prefs.impl = "content" /\ initPc # "loadSettings") =>
        (MemoryInRange /\ StoredInRange(prefs.series))

\* C26 amended: in the content script the three settings are always integers
\* in [0, 86400] in memory, and so are the fields of every persisted record
\* that a save has written.
C26_InRangeOnceWritten ==
    prefs.impl = "content" =>
        /\ MemoryInRange
        /\ \A s \in SeriesIds : prefs.saved[s].written => StoredInRange(s)

\* a save with a field above 24 hours has overwritten a record that was stored
\* out of range
C26_Witness ==
    /\ prefs.impl = "content"
    /\ prefs.call.made
    /\ prefs.call.args[1] > Hundredths(MaxSeconds)
    /\ prefs.saved[prefs.series].written
    /\ prefs.saved[prefs.series].args = prefs.call.args
    /\ prefs.store[keyOf(prefs.series)].kind = "record"
    /\ MemoryInRange
    /\ StoredInRange(prefs.series)

----------------------------------------------------------------------------
(* Properties of the Dailymotion bridge *)

\* the origins of animexin.dev and of its subdomains
ParentOrigins == {HostOrigin, UrlOrigin(<<"www", "animexin", "dev">>)}

\* message m is a command of the parent page
FromParent(m) ==
    /\ m.data.source = "animexin-controller"
    /\ m.data.type = "dm_bridge_command"
    /\ m.origin \in ParentOrigins

\* what a command can change: the video and the events sent to the parent
effectOf(b) == <<b.paused, b.currentTime, b.emitted, b.ran>>

\* C27: with a Dailymotion frame attached in which the bridge runs and a video
\* element exists, a seek(t), play or pause command the content script has
\* issued is executed by the bridge on that video once the frame has
\* delivered the messages of the command (for seek, the position of the
\* video becomes t and a current_time event is sent back).
C27_CommandReachesVideo ==
    (/\ dom.bridge.dailymotion
     /\ dom.bridge.videoEl
     /\ dom.bridge.issued.command # "none"
     /\ dom.bridge.inbox = <<>>)
        => /\ dom.bridge.ran.command = dom.bridge.issued.command
           /\ dom.bridge.issued.command = "seek" =>
                 /\ dom.bridge.ran.time = dom.bridge.issued.time
                 /\ dom.bridge.emitted
                        = [event |-> "current_time", time |-> dom.bridge.issued.time]

\* C39: the bridge executes a command only if the message carries the source
\* 'animexin-controller' and the type 'dm_bridge_command' and comes from
\* animexin.dev or one of its subdomains: the delivery of any other message,
\* one from an origin that is not a URL included, leaves the video as it is
\* and sends no event.
C39_OnlyParentCommandsRun ==
    [][(BridgeReceive /\ ~FromParent(Head(dom.bridge.inbox)))
          => effectOf(dom'.bridge) = effectOf(dom.bridge)]_vars

----------------------------------------------------------------------------
(* The change monitor alone: the locator, the page's mutations and the passes *)

MonitorInit ==
    /\ ctl = InitCtl(0, 0, 0)
    /\ \E hasFrame \in BOOLEAN, hasVideo \in BOOLEAN :
           dom = InitDom(hasFrame, hasVideo, FALSE)
    /\ initPc = "findPlayer"
    /\ attempts = 0
    /\ tickSched = "sync"
    /\ mon = InitMon
    /\ hist = InitHist
    /\ eval = InitEval
    /\ prefs = InitPrefs

MonitorNext ==
    \/ LocatorTick
    \/ DomInsertFrame
    \/ DomRemoveFrame
    \/ DomInsertVideo
    \/ DomRemoveVideo
    \/ MonitorPass
    \/ RecheckTimer

MonitorSpec == MonitorInit /\ [][MonitorNext]_vars

\* requestAnimationFrame callbacks and timers that were scheduled do run: the
\* locator tick, the reattachment pass and the 16 ms recheck are each taken once
\* they stay enabled
FairMonitorSpec ==
    /\ MonitorSpec
    /\ WF_vars(LocatorTick)
    /\ WF_vars(MonitorPass)
    /\ WF_vars(RecheckTimer)

----------------------------------------------------------------------------
(* The window messages alone: any window may post any payload to the page *)

\* an origin that is not Dailymotion's and has its name in it
LookalikeOrigin == <<"https://", "dailymotion", ".", "com", ".", "evil", ".", "io">>

Origins == {DailymotionOrigin, OtherOrigin, LookalikeOrigin}

\* the payloads posted: the events of the player, a text, an object with no tag
TagPayloads == {[event |-> e, data |-> 0] : e \in {"play", "pause", "ended"}}

TimePayloads == {[event |-> "timeupdate", data |-> [currentTime |-> t]] : t \in TimeVals}

DurationPayloads == {[event |-> "duration", data |-> d] : d \in DurVals}

StatePayloads == {[event |-> "player_state", data |-> [isPlaying |-> b]] : b \in BOOLEAN}

TextPayload == [primitive |-> "text"]

UntaggedPayload == [data |-> 0]

\* Q holds of some payload
SomePayload(Q(_)) ==
    \/ \E d \in TagPayloads : Q(d)
    \/ \E d \in TimePayloads : Q(d)
    \/ \E d \in DurationPayloads : Q(d)
    \/ \E d \in StatePayloads : Q(d)
    \/ Q(TextPayload)
    \/ Q(UntaggedPayload)

\* a window posts a message to the page
MessageArrives ==
    Running /\ \E f \in FrameIds, origin \in Origins :
                   SomePayload(LAMBDA d : OnMessage(f, origin, d))

MessageInit ==
    /\ ctl = InitCtl(9000, 0, 134950)
    /\ \E hasNext \in BOOLEAN : dom = InitDom(TRUE, FALSE, hasNext)
    /\ initPc = "findPlayer"
    /\ attempts = 0
    /\ tickSched = "sync"
    /\ mon = InitMon
    /\ hist = InitHist
    /\ eval = InitEval
    /\ prefs = InitPrefs

MessageNext ==
    \/ LocatorTick
    \/ MessageArrives
    \/ IntroTimer

MessageSpec == MessageInit /\ [][MessageNext]_vars

----------------------------------------------------------------------------
(* The content script with a Dailymotion frame: the attach, the loads of the
   frame and the messages the frame posts *)

TagFields == {"event", "type", "name"}

TimeFields == {"time", "currentTime", "position"}

DurationFields == {"duration", "length"}

\* positions and durations the frame reports
ExtTimes == {134950}

\* the message whose tag is carried by tagField and whose number v is carried
\* by valField, inside data ("nested") or beside the tag ("flat"); "bare" has
\* no number
Msg(tagField, tag, shape, valField, v) ==
    CASE shape = "nested" -> (tagField :> tag) @@ ("data" :> (valField :> v))
      [] shape = "flat" -> (tagField :> tag) @@ (valField :> v)
      [] OTHER -> (tagField :> tag) @@ ("data" :> [primitive |-> 0])

\* the addresses of the frame as the host page writes them
Queries == {<<"autoplay">>, <<"api">>, <<"api", "origin">>}

\* a 'message' event on the window reaches every handler setupPlayer added
Deliver(origin, data, tagField, valField) ==
    /\ ctl' = Dispatch(LAMBDA c : handlePlayerMessageExt(c, origin, data), Begin(ctl),
                       ctl.messageHandlers)
    /\ hist' = [hist EXCEPT !.via = [tag |-> tagField, value |-> valField]]
    /\ UNCHANGED <<initPc, attempts, tickSched, dom, mon, eval, prefs>>

\* a window posts one of the player's events to the page
MessageExt ==
    /\ Running
    /\ ctl.messageHandlers > 0
    /\ \/ Deliver(OtherOrigin, Msg("event", "play", "bare", "none", 0), "event", "none")
       \/ \E tagField \in TagFields :
            \/ \E e \in {"apiready", "play", "pause", "ended"} :
                 Deliver(DailymotionOrigin, Msg(tagField, e, "bare", "none", 0),
                         tagField, "none")
            \/ \E f \in TimeFields, t \in ExtTimes, shape \in {"nested", "flat"} :
                 Deliver(DailymotionOrigin, Msg(tagField, "timeupdate", shape, f, t),
                         tagField, f)
            \/ \E f \in DurationFields, d \in ExtTimes, shape \in {"nested", "flat"},
                  e \in {"durationchange", "duration"} :
                 Deliver(DailymotionOrigin, Msg(tagField, e, shape, f, d), tagField, f)

\* 'load' on the frame: the first load or the one a write to src caused
FrameLoadExt ==
    /\ Running
    /\ dom.addr.loads > 0
    /\ LET a == [dom.addr EXCEPT !.loads = @ - 1]
           r == frameReady(Begin(ctl), a)
       IN  IF ctl.playerFrame # 0 /\ ctl.loadListeners[ctl.playerFrame] > 0
           THEN ctl' = r.c /\ dom' = [dom EXCEPT !.addr = r.a]
           ELSE ctl' = Begin(ctl) /\ dom' = [dom EXCEPT !.addr = a]
    /\ UNCHANGED <<initPc, attempts, tickSched, mon, hist, eval, prefs>>

ExtInit ==
    /\ ctl = InitCtl(0, 0, 0)
    /\ \E q \in Queries, l \in {0, 1} :
           dom = [InitDom(TRUE, FALSE, FALSE) EXCEPT
                     !.addr = [FrameAddr(q) EXCEPT !.loads = l]]
    /\ initPc = "findPlayer"
    /\ attempts = 0
    /\ tickSched = "sync"
    /\ mon = InitMon
    /\ hist = InitHist
    /\ eval = InitEval
    /\ prefs = [InitPrefs EXCEPT !.impl = "content"]

ExtNext ==
    \/ PlayerFoundExt
    \/ FrameLoadExt
    \/ MessageExt

ExtSpec == ExtInit /\ [][ExtNext]_vars

----------------------------------------------------------------------------
(* The background service of the extension: reportError messages and the
   callbacks of chrome.storage.local *)

\* reportError messages explored
MaxErrors == 12

\* reports whose storage operations may be under way at the same time
MaxInFlight == 2

\* errors.slice(0, 10)
KeepErrors == 10

\* chrome.storage.local.get(['errorLog'], callback) for the entry built by logError
GetOp(entry) == [kind |-> "get", entry |-> entry, log |-> <<>>]

\* chrome.storage.local.set({ errorLog: log })
SetOp(log) == [kind |-> "set", entry |-> 0, log |-> log]

\* errors.unshift(errorLog); errors.slice(0, 10)
trimmed(errors, entry) ==
    LET all == <<entry>> \o errors
    IN  SubSeq(all, 1, IF Len(all) < KeepErrors THEN Len(all) ELSE KeepErrors)

\* handleMessage, case 'reportError': logError builds the entry and asks the
\* storage for the log; the response is sent without waiting for it
logError(l, entry) == [l EXCEPT !.ops = Append(@, GetOp(entry)), !.reported = entry]

\* the callback of the get in logError, with the log that was read
getCallback(l, cb) == [l EXCEPT !.ops = Append(@, SetOp(trimmed(cb.result, cb.entry)))]

BgStep(l) ==
    /\ prefs' = [prefs EXCEPT !.local = l]
    /\ UNCHANGED <<ctl, initPc, attempts, tickSched, dom, mon, hist, eval>>

\* a content script sends { action: 'reportError', error }
ReportError ==
    /\ prefs.local.reported < MaxErrors
    /\ Len(prefs.local.ops) + Len(prefs.local.callbacks) < MaxInFlight
    /\ BgStep(logError(prefs.local, prefs.local.reported + 1))

\* the storage serves its oldest operation: a get reads the log and queues
\* its callback, a set replaces the log
StorageServes ==
    /\ prefs.local.ops # <<>>
    /\ LET op == Head(prefs.local.ops)
           l == [prefs.local EXCEPT !.ops = Tail(@)]
       IN  BgStep(IF op.kind = "get"
                  THEN [l EXCEPT !.callbacks =
                           Append(@, [entry |-> op.entry, result |-> l.errorLog])]
                  ELSE [l EXCEPT !.errorLog = op.log])

\* the oldest get callback runs
GetCallback ==
    /\ prefs.local.callbacks # <<>>
    /\ BgStep(getCallback([prefs.local EXCEPT !.callbacks = Tail(@)],
                          Head(prefs.local.callbacks)))

BgInit ==
    /\ ctl = InitCtl(0, 0, 0)
    /\ dom = InitDom(FALSE, FALSE, FALSE)
    /\ initPc = "ready"
    /\ attempts = 0
    /\ tickSched = "none"
    /\ mon = InitMon
    /\ hist = InitHist
    /\ eval = InitEval
    /\ prefs = [InitPrefs EXCEPT !.impl = "content"]

BgNext ==
    \/ ReportError
    \/ StorageServes
    \/ GetCallback

BgSpec == BgInit /\ [][BgNext]_vars

----------------------------------------------------------------------------
(* Page unload: setupCleanup and the hooks pushed onto cleanupFunctions *)

\* the hooks of setupPlayer and startPlayerMonitoring: the message listeners
\* and the video listeners are removed, each load listener is removed from the
\* frame held now, every playback monitor loop is stopped
cleanup(c) ==
    [c EXCEPT !.messageHandlers = 0,
              !.loadListeners = [f \in FrameIds |->
                                    IF f = c.playerFrame THEN 0 ELSE c.loadListeners[f]],
              !.videoListeners = [v \in VideoIds |-> 0],
              !.monitors = 0]

\* the hook of startMonitoring: observer.disconnect()
disconnect(m) == [m EXCEPT !.observer = FALSE]

\* the hook of findPlayer: if (rafId) cancelAnimationFrame(rafId)
cancelTick(sched) == IF sched = "raf" THEN "none" ELSE sched

\* 'beforeunload' on the window: the listener of setupCleanup, which init adds
\* after findPlayer has resolved, runs every hook
BeforeUnload ==
    /\ Running
    /\ ~hist.unloaded
    /\ hist' = [hist EXCEPT !.unloaded = TRUE]
    /\ IF initPc = "ready"
       THEN /\ ctl' = cleanup(Begin(ctl))
            /\ mon' = disconnect(mon)
            /\ tickSched' = cancelTick(tickSched)
       ELSE /\ ctl' = Begin(ctl)
            /\ UNCHANGED <<mon, tickSched>>
    /\ UNCHANGED <<initPc, attempts, dom, eval, prefs>>

UnloadInit ==
    /\ ctl = InitCtl(9000, 0, 0)
    /\ \E th \in BOOLEAN : dom = [InitDom(TRUE, FALSE, FALSE) EXCEPT !.postThrows = th]
    /\ initPc = "findPlayer"
    /\ attempts = 0
    /\ tickSched = "sync"
    /\ mon = InitMon
    /\ hist = InitHist
    /\ eval = InitEval
    /\ prefs = InitPrefs

UnloadNext ==
    \/ LocatorTick
    \/ FrameLoad
    \/ PlayPauseMessage
    \/ PlaybackPoll
    \/ IntroTimer
    \/ RetryTimer
    \/ DomInsertFrame
    \/ MonitorPass
    \/ BeforeUnload

UnloadSpec == UnloadInit /\ [][UnloadNext]_vars

----------------------------------------------------------------------------
(* Properties of the attach and of the change monitor *)

\* C28: the intro seek is issued only once the attached player is seekable,
\* that is once its duration is known: the timer of a play event received
\* before that sends no seek before the duration has arrived.
C28_SeekOnlyWhenSeekable ==
    [][IntroTimer => ctl.duration > 0]_vars

\* C29: after any sequence of attachments and replacements at most one window
\* message subscription, at most one set of listeners on a video element and
\* at most one playback monitor loop are active (those of the previous
\* surface are removed before those of the new one are installed).
C29_OneSubscriptionPerRole ==
    /\ ctl.messageHandlers <= 1
    /\ \A v \in VideoIds : ctl.videoListeners[v] <= 1
    /\ Cardinality({v \in VideoIds : ctl.videoListeners[v] > 0}) <= 1
    /\ ctl.monitors <= 1

\* the surface the controller holds and the subscriptions it has made
attachment(c) ==
    <<c.playerFrame, c.html5Video, c.messageHandlers, c.loadListeners,
      c.videoListeners, c.monitors>>

\* C30: a pass of the change monitor attaches only when the frame or the video
\* it finds is not the attached one, and a pass over a document whose frame and
\* video elements are those of the last attach changes neither playerFrame,
\* html5Video nor any subscription.
C30_PassOverSameDocumentKeepsAttachment ==
    [][MonitorPass =>
         /\ Attach => \/ (dom.frame # 0 /\ dom.frame # ctl.playerFrame)
                      \/ (dom.video # 0 /\ dom.video # ctl.html5Video)
         /\ (ctl.monitors > 0 /\ ~hist.docChanged) =>
                attachment(ctl') = attachment(ctl)]_vars

\* C31: once the page-unload event has been handled no locator tick, playback
\* monitor tick, change-monitor pass, retry timer or intro-skip timer runs any
\* more: each of them had a hook that the teardown ran, also when the locator
\* had not found a player.
C31_NothingRunsAfterUnload ==
    [][hist.unloaded =>
         ~(LocatorTick \/ PlaybackPoll \/ MonitorPass \/ RetryTimer \/ IntroTimer)]_vars

\* a step in which the observer reports a qualifying mutation
Mutation == DomInsertFrame \/ DomInsertVideo

\* C32: at most one reattachment pass is scheduled or running at any time, and
\* a qualifying mutation that arrives while a pass is pending schedules no
\* second animation-frame callback.
C32_OnePassAtATime ==
    [][/\ mon'.raf <= 1
       /\ (mon'.raf = 1) = mon'.isProcessing
       /\ (Mutation /\ mon.raf = 1) => mon'.raf = 1]_vars

\* a qualifying mutation has arrived while a pass was pending
C32_Witness == mon.raf = 1 /\ mon.pendingCheck

\* C37: every qualifying mutation that occurs once the locator has settled is
\* followed by a reattachment pass that starts after it, so the element it added
\* is compared with the attached surface. The scheduled callbacks are assumed to
\* run (FairMonitorSpec).
C37_MutationLeadsToPass ==
    (hist.unseen /\ initPc # "findPlayer") ~> ~hist.unseen

----------------------------------------------------------------------------
(* Properties of the inbound events *)

\* C33: a reported position that lies more than a small margin (one second
\* here) before the last accepted currentTime is ignored: currentTime keeps its
\* value and the stale position triggers no outro navigation.
C33_StaleTimeIgnored ==
    [][\A t \in TimeVals :
         (Running /\ TimeUpdated(t) /\ t + 100 < ctl.currentTime) =>
             (ctl'.currentTime = ctl.currentTime /\ ~ctl'.fx.outroNav)]_vars

\* the fields the event handlers set
playback(c) == <<c.isPlaying, c.currentTime, c.duration, c.playerReady>>

\* the origins of the Dailymotion embed host
EmbedOrigins == {DailymotionOrigin}

\* C34: a window message reaches the event handlers only if its origin is one
\* of the Dailymotion embed host and its payload is an object with an event
\* tag: every other message leaves isPlaying, currentTime, duration and
\* playerReady unchanged, schedules no seek and triggers no navigation.
C34_OnlyEmbedMessagesDispatched ==
    [][~SomePayload(LAMBDA data :
          \E origin \in Origins :
             /\ Running
             /\ \E f \in FrameIds : OnMessage(f, origin, data)
             /\ ~(origin \in EmbedOrigins /\ isObject(data) /\ "event" \in DOMAIN data)
             /\ ~(/\ playback(ctl') = playback(ctl)
                  /\ ctl'.introTimers = ctl.introTimers
                  /\ ~ctl'.fx.nav))]_vars

\* what an accepted message does to isPlaying, currentTime and duration
updateBy(data) ==
    LET c == handlePlayerMessageExt(ctl, DailymotionOrigin, data)
    IN  <<c.isPlaying, c.currentTime, c.duration>>

\* C35: in the content script two accepted messages that differ only in the
\* field name that carries the event tag (event, type, name), the position
\* (time, currentTime, position) or the duration (duration, length) update
\* isPlaying, currentTime and duration in the same way (each of them as the
\* message with the names event, time and duration does).
C35_FieldNamesEquivalent ==
    ctl.messageHandlers > 0 =>
        \A g \in TagFields :
            /\ \A e \in {"play", "pause"} :
                  updateBy(Msg(g, e, "bare", "none", 0))
                      = updateBy(Msg("event", e, "bare", "none", 0))
            /\ \A f \in TimeFields, t \in ExtTimes, shape \in {"nested", "flat"} :
                  updateBy(Msg(g, "timeupdate", shape, f, t))
                      = updateBy(Msg("event", "timeupdate", shape, "time", t))
            /\ \A f \in DurationFields, d \in ExtTimes, shape \in {"nested", "flat"},
                  e \in {"durationchange", "duration"} :
                  updateBy(Msg(g, e, shape, f, d))
                      = updateBy(Msg("event", e, shape, "duration", d))

\* a position carried by the last of the names, under the last of the tag
\* names, has been accepted
C35_Witness ==
    /\ hist.via = [tag |-> "name", value |-> "position"]
    /\ ctl.currentTime = 134900

\* C36: no command or subscription is posted to an attached Dailymotion frame
\* while its address lacks the api flag or the origin parameter.
C36_RewriteBeforeFirstUse == ~dom.addr.early

\* C38: ensureDailymotionApiEnabled writes a frame's address at most once:
\* after the write the address holds both parameters, and every later
\* application, the one of the load handler after the reload included, leaves
\* it as it is.
C38_RewriteAtMostOnce ==
    [][/\ dom'.addr.writes <= 1
       /\ dom.addr.writes = 1 =>
              /\ apiEnabled(dom.addr.query)
              /\ dom'.addr.query = dom.addr.query
              /\ dom'.addr.writes = 1]_vars

\* the address was written and the load that the write caused has been handled
C38_Witness == dom.addr.writes = 1 /\ dom.addr.loads = 0 /\ apiEnabled(dom.addr.query)

\* the n most recent of the errors reported so far, newest first
Latest(n) == [i \in 1..n |-> prefs.local.reported - i + 1]

\* C40: once every storage operation of the reports handled so far has
\* completed, the stored errorLog holds the min(n, 10) most recently reported
\* errors, newest first, whatever the order in which the storage reads and
\* writes of the reports were served.
C40_LogHoldsLatest ==
    (prefs.local.ops = <<>> /\ prefs.local.callbacks = <<>>)
        => prefs.local.errorLog
               = Latest(IF prefs.local.reported < 10 THEN prefs.local.reported ELSE 10)

====
